---- MODULE Spec2Model ----
(***************************************************************************)
(* State-machine model of python-yarbo's asynchronous transport            *)
(* (yarbo/mqtt.py, MqttTransport) and session layer (yarbo/local.py,       *)
(* YarboLocalClient).                                                      *)
(*                                                                         *)
(* Two threads of control exist in the program: the paho network thread,   *)
(* which runs _on_connect / _on_disconnect / _on_message, and the asyncio  *)
(* event loop, which runs every coroutine and every function handed over   *)
(* with loop.call_soon_threadsafe.  The hand-off is the FIFO loopq.  A     *)
(* coroutine runs atomically between two awaits, so one action of a task   *)
(* is the code between two suspension points.                              *)
(***************************************************************************)
EXTENDS Integers, Sequences, FiniteSets, TLC

\* ------------------------------------------------------------------ bounds
MaxMsgs == 2        \* inbound broker messages fanned out in one behaviour
MaxPublog == 3      \* messages handed to the paho client in one behaviour
MaxPending == 3     \* functions waiting in the call_soon_threadsafe hand-off
QueueMaxSize == 2   \* capacity of a mailbox (asyncio.Queue(maxsize=1000), scaled down)
MaxCandidates == 3  \* unique candidate addresses of one discover() scan
SCAN_CONCURRENCY == 2  \* permits of the scan semaphore (_SCAN_CONCURRENCY = 50, scaled down)
MaxNameLen == 3     \* pieces of a serial number or topic leaf
MaxTopicLen == 7    \* pieces of a string handed to Topic.parse
MaxStream == 4      \* envelopes of a stream read by watch_telemetry

Tasks == {1, 2}
SN == "SN1"
Absent == "absent"  \* a key that is not in a document / an argument that is None

\* ------------------------------------------------------------------ const.py
TOPIC_LEAF_DATA_FEEDBACK == "data_feedback"
TOPIC_LEAF_DEVICE_MSG == "DeviceMSG"
TOPIC_LEAF_HEART_BEAT == "heart_beat"
TOPIC_LEAF_PLAN_FEEDBACK == "plan_feedback"
ALL_FEEDBACK_LEAVES ==
    <<TOPIC_LEAF_DEVICE_MSG, TOPIC_LEAF_HEART_BEAT, TOPIC_LEAF_DATA_FEEDBACK,
      TOPIC_LEAF_PLAN_FEEDBACK, "recharge_feedback", "ota_feedback", "patrol_feedback",
      "cloud_points_feedback", "deviceinfo_feedback", "log_feedback",
      "a_property_1_feedback">>

\* A topic string is the sequence of its "/"-separated segments.
TOPIC_APP_TMPL(sn, cmd) == <<"snowbot", sn, "app", cmd>>
TOPIC_DEVICE_TMPL(sn, feedback) == <<"snowbot", sn, "device", feedback>>

\* Topic.leaf: topic.rsplit("/", 1)[-1]
TopicLeaf(topic) == IF Len(topic) = 0 THEN "" ELSE topic[Len(topic)]

\* ------------------------------------------------------------------ documents
\* A decoded payload document: the keys the transport and the session read.
\*   ptopic : value of the "topic" key (Absent when the key is missing)
\*   state  : value of the "state" key: "0", "1", "null", "junk" (not an int), Absent
\*   raw    : TRUE for decode's {"_raw": hex} sentinel
Doc(ptopic, state) == [ptopic |-> ptopic, state |-> state, raw |-> FALSE]
RawDoc == [ptopic |-> Absent, state |-> Absent, raw |-> TRUE]
EmptyDoc == Doc(Absent, Absent)

\* ------------------------------------------------------------------ _codec.py
\* Wire bytes: zlib says whether zlib.decompress accepts them, json whether the
\* (decompressed, or direct) text parses as JSON, doc the parsed document.
Wire(z, j, d) == [zlib |-> z, json |-> j, doc |-> d]

encode(payload) == Wire(TRUE, TRUE, payload)

\* decode: json.loads(zlib.decompress(data)) guarded by `except zlib.error` only;
\* then json.loads(data) guarded by JSONDecodeError / UnicodeDecodeError.
decode(data) ==
    IF data.zlib
    THEN IF data.json THEN [raised |-> FALSE, doc |-> data.doc]
                      ELSE [raised |-> TRUE, doc |-> RawDoc]
    ELSE IF data.json THEN [raised |-> FALSE, doc |-> data.doc]
                      ELSE [raised |-> FALSE, doc |-> RawDoc]

\* ------------------------------------------------------------------ models.py
\* YarboCommandResult.from_dict and .success
StateInt(s) ==
    CASE s = Absent -> 0
      [] s = "null" -> 0
      [] s = "0" -> 0
      [] s = "1" -> 1
      [] OTHER -> -1

\* A from_dict that reports every acknowledgement as a success
from_dict_lenient(d) ==
    [topic |-> IF d.ptopic = Absent THEN "" ELSE d.ptopic,
     state |-> StateInt(d.state),
     success |-> TRUE]

from_dict(d) ==
    [topic |-> IF d.ptopic = Absent THEN "" ELSE d.ptopic,
     state |-> StateInt(d.state),
     success |-> StateInt(d.state) = 0]

\* ------------------------------------------------------------------ state
VARIABLES
    link,                \* paho client / broker session: "idle", "trying", "up", "stopped"
    has_loop,            \* MqttTransport._loop is set
    connected,           \* MqttTransport._connected (asyncio.Event)
    was_connected,       \* MqttTransport._was_connected
    reconnect_callbacks, \* MqttTransport._reconnect_callbacks
    loopq,               \* functions handed to the loop by call_soon_threadsafe, FIFO
    message_queues,      \* MqttTransport._message_queues (list of mailbox identities)
    mbox,                \* contents of every mailbox
    publog,              \* messages handed to the paho client by publish, in order
    conn_pc,             \* position of the connect() / disconnect() coroutine
    controller_acquired, \* YarboLocalClient._controller_acquired
    auto_controller,     \* YarboLocalClient._auto_controller
    pc,                  \* position of each task's coroutine
    call,                \* the API call each task is running
    tq,                  \* the mailbox each task holds (0: none)
    hs_idx,              \* index in publog of the handshake publish of the task's call
    start_acq,           \* controller_acquired when the task's call started
    last_heartbeat,      \* MqttTransport._last_heartbeat (Absent: None)
    nmsgs,               \* budget counter: inbound messages fanned out so far
    ever_up,             \* history: a connection has been established before
    subscriptions,       \* topics the broker holds subscribed for the client's session
    closed,              \* history: disconnect() has returned, no connect() has succeeded since
    disc_pc,             \* discover(): "idle", "scanning" (gather is waiting), "returned"
    probes,              \* discover(): the probe_one task of every unique candidate
    completed,           \* history: the candidates in the order their probes completed
    endpoints,           \* discover(): the list returned by the last scan
    wc_pc,               \* _with_client: "idle", "trying", "yielded", "exit", "raised"
    ordered,             \* _with_client: connection_order(endpoints)
    last_err,            \* _with_client: last_err
    tried,               \* history: the endpoints _with_client tried, with the outcome of connect
    ret,                 \* history: the last call of a library function: name, arguments, value
    hs_since_drop,       \* history: a handshake was published since the connection last dropped
    renotified,          \* history: a reconnect notification reset the controller flag, no
                         \* handshake was published since the drop and no command since
    ev                   \* history: what the last step did

vars == <<link, has_loop, connected, was_connected, reconnect_callbacks, loopq,
          message_queues, mbox, publog, conn_pc, controller_acquired,
          auto_controller, pc, call, tq, hs_idx, start_acq, nmsgs, ever_up,
          last_heartbeat, subscriptions, closed, disc_pc, probes, completed, endpoints,
          wc_pc, ordered, last_err, tried, ret,
          hs_since_drop, renotified, ev>>

discvars == <<disc_pc, probes, completed, endpoints>>
wcvars == <<wc_pc, ordered, last_err, tried>>
libvars == <<wcvars, ret>>
clientvars == <<link, has_loop, connected, was_connected, reconnect_callbacks, loopq,
                message_queues, mbox, publog, conn_pc, controller_acquired,
                auto_controller, pc, call, tq, hs_idx, start_acq, nmsgs, ever_up,
                last_heartbeat, subscriptions, closed, hs_since_drop, renotified, ev>>
netvars == <<link, was_connected, nmsgs, ever_up, subscriptions, closed, discvars, libvars, last_heartbeat>>
histvars == <<hs_since_drop, renotified>>
taskvars == <<pc, call, tq, hs_idx, start_acq>>


\* ------------------------------------------------------------------ helpers
Range(s) == {s[i] : i \in 1..Len(s)}

NoEnv == [topic |-> <<>>, payload |-> EmptyDoc]
Envelope(topic, payload) == [topic |-> topic, payload |-> payload]

\* An entry of the hand-off queue: the function and its arguments.
Cb(kind, q, env) == [cb |-> kind, q |-> q, env |-> env]

\* The last step: its kind, and for a step of a task the task, the API call it
\* belongs to, the command or outcome, a number and the envelope returned.
\*   type, n   : the step, and a count it produced (network and hand-off steps)
\*   task, api : the task that stepped and the API call it is running
\*   cmd       : the command published, or the command of the call
\*   out       : the outcome of the step
\*   acq0, hs  : controller_acquired when the call started, and the position
\*               in publog of the call's handshake publish (0: none)
\*   env       : the envelope a wait returned
\*   first,    : for an iteration of wait_for_message called directly: it was
\*   late        the first one of the call; the deadline had passed
TEv(type, task, c, cmd, out, acq0, hs, env) ==
    [type |-> type, task |-> task, api |-> c.api, cmd |-> cmd, out |-> out, n |-> 0,
     acq0 |-> acq0, hs |-> hs, env |-> env, first |-> FALSE, late |-> FALSE]
Ev(type, cmd, out, n) ==
    [type |-> type, task |-> 0, api |-> Absent, cmd |-> cmd, out |-> out, n |-> n,
     acq0 |-> FALSE, hs |-> 0, env |-> NoEnv, first |-> FALSE, late |-> FALSE]

\* An API call: the method, its command, and for wait_for_message used
\* directly the feedback leaf, the command-name filter and the sign of timeout.
NoCall == [api |-> "none", cmd |-> Absent, leaf |-> Absent, name |-> Absent, tmo |-> Absent]
Call(api, cmd) == [api |-> api, cmd |-> cmd, leaf |-> Absent, name |-> Absent, tmo |-> Absent]
RawCall(api, leaf, name, tmo) ==
    [api |-> api, cmd |-> Absent, leaf |-> leaf, name |-> name, tmo |-> tmo]

\* Mailbox identities: a new asyncio.Queue is an object distinct from every
\* queue still referenced (registered, held by a task, or an argument of a
\* pending hand-off); identities of unreferenced queues are reused.
QIds == 1..(Cardinality(Tasks) + MaxPending + 2)
LiveQs == Range(message_queues) \cup {tq[t] : t \in Tasks}
             \cup {loopq[i].q : i \in 1..Len(loopq)}
HasFreshQ == \E q \in QIds : q \notin LiveQs
FreshQ == CHOOSE q \in QIds : q \notin LiveQs /\ \A r \in QIds : r < q => r \in LiveQs

\* list.remove(x) under contextlib.suppress(ValueError): first occurrence, if any
ListRemove(s, x) ==
    IF \E i \in 1..Len(s) : s[i] = x
    THEN LET i == CHOOSE k \in 1..Len(s) : s[k] = x /\ \A j \in 1..(k - 1) : s[j] # x
         IN SubSeq(s, 1, i - 1) \o SubSeq(s, i + 1, Len(s))
    ELSE s

\* MqttTransport.add_reconnect_callback
add_reconnect_callback(cbs, callback) ==
    IF callback \notin Range(cbs) THEN Append(cbs, callback) ELSE cbs

_enqueue_safe_drop_newest(box, envelope) ==
    IF Len(box) >= QueueMaxSize THEN box ELSE Append(box, envelope)

_enqueue_safe_prepend(box, envelope) ==
    LET room == IF Len(box) >= QueueMaxSize THEN Tail(box) ELSE box
    IN <<envelope>> \o room

\* MqttTransport._enqueue_safe: drop the oldest entry of a full queue, then put
_enqueue_safe(box, envelope) ==
    LET room == IF Len(box) >= QueueMaxSize THEN Tail(box) ELSE box
    IN IF Len(room) < QueueMaxSize THEN Append(room, envelope) ELSE room

\* A release_queue that leaves the mailbox registered
release_queue_noop(queues, q) == queues

\* MqttTransport.release_queue and the finally block of wait_for_message
release_queue(queues, q) == ListRemove(queues, q)

\* MqttTransport.create_wait_queue: the registered list after the append
create_wait_queue(queues, q) == Append(queues, q)

\* ------------------------------------------------------------------ initial state
Init ==
    /\ link = "idle"
    /\ has_loop = FALSE
    /\ connected = FALSE
    /\ was_connected = FALSE
    /\ reconnect_callbacks = <<>>
    /\ loopq = <<>>
    /\ message_queues = <<>>
    /\ mbox = [q \in QIds |-> <<>>]
    /\ publog = <<>>
    /\ conn_pc = "idle"
    /\ controller_acquired = FALSE
    /\ auto_controller \in BOOLEAN
    /\ pc = [t \in Tasks |-> "idle"]
    /\ call = [t \in Tasks |-> NoCall]
    /\ tq = [t \in Tasks |-> 0]
    /\ hs_idx = [t \in Tasks |-> 0]
    /\ start_acq = [t \in Tasks |-> FALSE]
    /\ last_heartbeat = Absent
    /\ nmsgs = 0
    /\ ever_up = FALSE
    /\ subscriptions = {}
    /\ closed = FALSE
    /\ disc_pc = "idle"
    /\ probes = <<>>
    /\ completed = <<>>
    /\ endpoints = <<>>
    /\ wc_pc = "idle"
    /\ ordered = <<>>
    /\ last_err = Absent
    /\ tried = <<>>
    /\ ret = [fn |-> "none", args |-> <<>>, value |-> <<>>]
    /\ hs_since_drop = FALSE
    /\ renotified = FALSE
    /\ ev = Ev("init", Absent, Absent, 0)

\* ------------------------------------------------------------------ connection lifecycle
\* YarboLocalClient.connect up to the await in MqttTransport.connect:
\* add_reconnect_callback, _loop set, _connected.clear(), a new paho client,
\* client.connect() succeeded, loop_start().
ClientConnect ==
    /\ conn_pc = "idle"
    /\ link \in {"idle", "stopped"}
    /\ reconnect_callbacks' = add_reconnect_callback(reconnect_callbacks, "client")
    /\ has_loop' = TRUE
    /\ connected' = FALSE
    /\ link' = "trying"
    /\ conn_pc' = "connecting"
    /\ ev' = Ev("connect", Absent, Absent, 0)
    /\ UNCHANGED <<was_connected, loopq, message_queues, mbox, publog,
                   controller_acquired, auto_controller, taskvars, nmsgs, ever_up, discvars, libvars, last_heartbeat, subscriptions, closed, histvars>>

\* MqttTransport.connect: client.connect() raised OSError -> YarboConnectionError
ClientConnectRefused ==
    /\ conn_pc = "idle"
    /\ link \in {"idle", "stopped"}
    /\ reconnect_callbacks' = add_reconnect_callback(reconnect_callbacks, "client")
    /\ has_loop' = TRUE
    /\ connected' = FALSE
    /\ ev' = Ev("connect_oserror", Absent, Absent, 0)
    /\ UNCHANGED <<link, conn_pc, was_connected, loopq, message_queues, mbox, publog,
                   controller_acquired, auto_controller, taskvars, nmsgs, ever_up, discvars, libvars, last_heartbeat, subscriptions, closed, histvars>>

\* MqttTransport.connect: wait_for(self._connected.wait()) returned
ConnectReturn ==
    /\ conn_pc = "connecting"
    /\ connected
    /\ conn_pc' = "idle"
    /\ closed' = FALSE
    /\ ev' = Ev("connect_ok", Absent, Absent, 0)
    /\ UNCHANGED <<link, has_loop, connected, was_connected, reconnect_callbacks, loopq,
                   message_queues, mbox, publog, controller_acquired, auto_controller,
                   taskvars, nmsgs, ever_up, discvars, libvars, last_heartbeat, subscriptions, histvars>>

\* MqttTransport.connect: wait_for timed out; loop_stop is sent to the executor
ConnectTimeout ==
    /\ conn_pc = "connecting"
    /\ ~connected
    /\ conn_pc' = "stopping"
    /\ ev' = Ev("connect_wait_timeout", Absent, Absent, 0)
    /\ UNCHANGED <<link, has_loop, connected, was_connected, reconnect_callbacks, loopq,
                   message_queues, mbox, publog, controller_acquired, auto_controller,
                   taskvars, nmsgs, ever_up, discvars, libvars, last_heartbeat, subscriptions, closed, histvars>>

\* MqttTransport.disconnect up to its await: client.disconnect(), loop_stop in the executor
Disconnect ==
    /\ conn_pc = "idle"
    /\ link # "idle"
    /\ conn_pc' = "closing"
    /\ ev' = Ev("disconnect", Absent, Absent, 0)
    /\ UNCHANGED <<link, has_loop, connected, was_connected, reconnect_callbacks, loopq,
                   message_queues, mbox, publog, controller_acquired, auto_controller,
                   taskvars, nmsgs, ever_up, discvars, libvars, last_heartbeat, subscriptions, closed, histvars>>

\* The executor's loop_stop has joined the paho thread; the completion of the
\* executor future reaches the loop through the same hand-off, behind
\* everything the network thread queued before it stopped.
LoopStopped ==
    /\ conn_pc \in {"stopping", "closing"}
    /\ link' = "stopped"
    /\ loopq' = Append(loopq, Cb(IF conn_pc = "stopping" THEN "resume_connect"
                                                        ELSE "resume_disconnect", 0, NoEnv))
    /\ conn_pc' = "joined"
    /\ subscriptions' = {}
    /\ ev' = Ev("loop_stopped", Absent, Absent, 0)
    /\ UNCHANGED <<has_loop, connected, was_connected, reconnect_callbacks,
                   message_queues, mbox, publog, controller_acquired, auto_controller,
                   taskvars, nmsgs, ever_up, discvars, libvars, last_heartbeat, closed, histvars>>

\* MqttTransport.connect resumes after run_in_executor: raise YarboTimeoutError
ResumeConnect ==
    /\ loopq # <<>>
    /\ Head(loopq).cb = "resume_connect"
    /\ loopq' = Tail(loopq)
    /\ conn_pc' = "idle"
    /\ ev' = Ev("connect_timeout", Absent, Absent, 0)
    /\ UNCHANGED <<link, has_loop, connected, was_connected, reconnect_callbacks,
                   message_queues, mbox, publog, controller_acquired, auto_controller,
                   taskvars, nmsgs, ever_up, discvars, libvars, last_heartbeat, subscriptions, closed, histvars>>

\* MqttTransport.disconnect resumes after run_in_executor: self._connected.clear()
ResumeDisconnect ==
    /\ loopq # <<>>
    /\ Head(loopq).cb = "resume_disconnect"
    /\ loopq' = Tail(loopq)
    /\ connected' = FALSE
    /\ conn_pc' = "idle"
    /\ closed' = TRUE
    /\ ev' = Ev("disconnected", Absent, Absent, 0)
    /\ UNCHANGED <<link, has_loop, was_connected, reconnect_callbacks,
                   message_queues, mbox, publog, controller_acquired, auto_controller,
                   taskvars, nmsgs, ever_up, discvars, libvars, last_heartbeat, subscriptions, histvars>>


\* ------------------------------------------------------------------ network thread
\* What _on_connect hands to the loop: _connected.set, then every registered
\* reconnect callback when the connect is a reconnect.
OnConnectHandoff(is_reconnect, cbs) ==
    <<Cb("set", 0, NoEnv)>> \o
    (IF is_reconnect THEN [i \in 1..Len(cbs) |-> Cb(cbs[i], 0, NoEnv)] ELSE <<>>)

\* A subscribe loop that runs on the initial connect only
subscribe_initial_only(subs, is_reconnect) ==
    IF is_reconnect THEN subs
    ELSE subs \cup {TOPIC_DEVICE_TMPL(SN, ALL_FEEDBACK_LEAVES[i]) :
                       i \in 1..Len(ALL_FEEDBACK_LEAVES)}

\* The subscribe loop of _on_connect: client.subscribe() for every leaf of
\* ALL_FEEDBACK_LEAVES, on the initial connect and on every reconnect.  The
\* session is a clean one: the broker drops the subscriptions when it ends.
subscribe_all(subs, is_reconnect) ==
    subs \cup {TOPIC_DEVICE_TMPL(SN, ALL_FEEDBACK_LEAVES[i]) :
                 i \in 1..Len(ALL_FEEDBACK_LEAVES)}

\* MqttTransport._on_connect(reason_code), rc = 0 or a refusal code
OnConnect(rc) ==
    /\ link = "trying"
    /\ conn_pc \in {"idle", "connecting", "stopping", "closing"}
    /\ IF rc = 0
       THEN LET is_reconnect == was_connected
                handoff == IF has_loop
                           THEN OnConnectHandoff(is_reconnect, reconnect_callbacks)
                           ELSE <<>>
            IN /\ Len(loopq) + Len(handoff) <= MaxPending
               /\ link' = "up"
               /\ ever_up' = TRUE
               /\ subscriptions' = subscribe_all(subscriptions, is_reconnect)
               /\ loopq' = loopq \o handoff
               /\ ev' = Ev("on_connect", "rc0", IF ever_up THEN "again" ELSE "first",
                           Len(handoff) - 1)
       ELSE /\ UNCHANGED <<link, ever_up, loopq, subscriptions>>
            /\ ev' = Ev("on_connect", "refused", IF ever_up THEN "again" ELSE "first", 0)
    /\ UNCHANGED <<has_loop, connected, was_connected, reconnect_callbacks,
                   message_queues, mbox, publog, conn_pc, controller_acquired,
                   auto_controller, taskvars, nmsgs, closed, discvars, libvars, last_heartbeat, histvars>>

\* MqttTransport._on_disconnect: after a lost session, a failed attempt, or
\* the clean close requested by disconnect()
OnDisconnect ==
    /\ link \in {"up", "trying"}
    /\ conn_pc # "joined"
    /\ Len(loopq) < MaxPending
    /\ was_connected' = TRUE
    /\ loopq' = IF has_loop THEN Append(loopq, Cb("clear", 0, NoEnv)) ELSE loopq
    /\ link' = IF conn_pc = "closing" THEN "down" ELSE "trying"
    /\ hs_since_drop' = FALSE
    /\ subscriptions' = {}
    /\ ev' = Ev("on_disconnect", Absent, Absent, 0)
    /\ UNCHANGED <<has_loop, connected, reconnect_callbacks, message_queues, mbox,
                   publog, conn_pc, controller_acquired, auto_controller, taskvars,
                   nmsgs, ever_up, discvars, libvars, last_heartbeat, closed, renotified>>

\* time.time(): the model keeps no clock, only that a time was recorded
TimeNow == "time"

\* What _on_message hands to the loop: one _enqueue_safe per mailbox of the
\* snapshot list(self._message_queues), each with its own copy of the envelope.
OnMessageHandoff(queues, topic, payload) ==
    [i \in 1..Len(queues) |-> Cb("enqueue", queues[i], Envelope(topic, payload))]

\* MqttTransport._on_message(msg); an exception of decode is caught and logged.
\* counted: the message is charged to the behaviour's budget of MaxMsgs.
_on_message(msg, counted) ==
    /\ link = "up"
    /\ LET d == decode(msg.data)
           handoff == IF ~d.raised /\ has_loop /\ message_queues # <<>>
                      THEN OnMessageHandoff(message_queues, msg.topic, d.doc)
                      ELSE <<>>
       IN /\ Len(loopq) + Len(handoff) <= MaxPending
          /\ (counted /\ handoff # <<>>) => nmsgs < MaxMsgs
          /\ nmsgs' = IF counted /\ handoff # <<>> THEN nmsgs + 1 ELSE nmsgs
          /\ last_heartbeat' = IF ~d.raised /\ TopicLeaf(msg.topic) = TOPIC_LEAF_HEART_BEAT
                               THEN TimeNow
                               ELSE last_heartbeat
          /\ loopq' = loopq \o handoff
          /\ ev' = Ev("on_message", TopicLeaf(msg.topic),
                      IF d.raised THEN "raised" ELSE "decoded", Len(handoff))
    /\ UNCHANGED <<link, has_loop, connected, was_connected, reconnect_callbacks,
                   message_queues, mbox, publog, conn_pc, controller_acquired,
                   auto_controller, taskvars, ever_up, discvars, libvars, subscriptions,
                   closed, histvars>>

OnMessage(msg) == _on_message(msg, TRUE)

\* A message of a burst that outruns the consumer: the mailbox bound, not the
\* budget, keeps the mailboxes finite
OnMessageBurst(msg) == _on_message(msg, FALSE)

\* ------------------------------------------------------------------ loop: hand-off
\* self._connected.set, scheduled by _on_connect
RunSet ==
    /\ loopq # <<>>
    /\ Head(loopq).cb = "set"
    /\ loopq' = Tail(loopq)
    /\ connected' = TRUE
    /\ ev' = Ev("run_set", Absent, Absent, 0)
    /\ UNCHANGED <<netvars, histvars, has_loop, reconnect_callbacks, message_queues, mbox, publog,
                   conn_pc, controller_acquired, auto_controller, taskvars>>

\* self._connected.clear, scheduled by _on_disconnect
RunClear ==
    /\ loopq # <<>>
    /\ Head(loopq).cb = "clear"
    /\ loopq' = Tail(loopq)
    /\ connected' = FALSE
    /\ ev' = Ev("run_clear", Absent, Absent, 0)
    /\ UNCHANGED <<netvars, histvars, has_loop, reconnect_callbacks, message_queues, mbox, publog,
                   conn_pc, controller_acquired, auto_controller, taskvars>>

\* YarboLocalClient._on_reconnect
_on_reconnect(acquired) == FALSE

\* A reconnect callback runs: the client's _on_reconnect, or another
\* registered callback that does not touch the session
RunReconnectCallback ==
    /\ loopq # <<>>
    /\ Head(loopq).cb \in {"client", "user"}
    /\ loopq' = Tail(loopq)
    /\ controller_acquired' = IF Head(loopq).cb = "client"
                              THEN _on_reconnect(controller_acquired)
                              ELSE controller_acquired
    /\ ev' = Ev("run_reconnect", Head(loopq).cb,
                IF controller_acquired THEN "was_acquired" ELSE "was_free", 0)
    /\ renotified' = (renotified \/ (Head(loopq).cb = "client" /\ controller_acquired
                                      /\ ~hs_since_drop))
    /\ UNCHANGED hs_since_drop
    /\ UNCHANGED <<netvars, has_loop, connected, reconnect_callbacks, message_queues,
                   mbox, publog, conn_pc, auto_controller, taskvars>>

\* self._enqueue_safe(q, envelope), scheduled by _on_message
RunEnqueue ==
    /\ loopq # <<>>
    /\ Head(loopq).cb = "enqueue"
    /\ loopq' = Tail(loopq)
    /\ LET q == Head(loopq).q
       IN mbox' = IF q \in Range(message_queues) \cup {tq[t] : t \in Tasks}
                  THEN [mbox EXCEPT ![q] = _enqueue_safe(@, Head(loopq).env)]
                  ELSE mbox
    /\ ev' = Ev("run_enqueue", Absent,
                IF Len(mbox[Head(loopq).q]) >= QueueMaxSize THEN "evicted" ELSE Absent,
                Head(loopq).q)
    /\ UNCHANGED <<netvars, histvars, has_loop, connected, reconnect_callbacks, message_queues,
                   publog, conn_pc, controller_acquired, auto_controller, taskvars>>

\* A second registration of a callback (add_reconnect_callback called again)
AddReconnectCallback(callback) ==
    /\ reconnect_callbacks' = add_reconnect_callback(reconnect_callbacks, callback)
    /\ ev' = Ev("add_callback", callback, Absent, Len(reconnect_callbacks'))
    /\ UNCHANGED <<netvars, histvars, has_loop, connected, loopq, message_queues, mbox, publog,
                   conn_pc, controller_acquired, auto_controller, taskvars>>



\* ------------------------------------------------------------------ transport: publish, wait
\* Variables no task step changes.
envvars == <<link, has_loop, connected, was_connected, reconnect_callbacks, loopq,
             conn_pc, auto_controller, nmsgs, ever_up, subscriptions, closed, discvars, libvars, last_heartbeat>>

\* Payload of a command (the session's commands carry no field the model reads).
CmdPayload(cmd) == EmptyDoc

\* A publish without the is_connected check
publish_unchecked(is_connected, log, cmd, payload) ==
    [raised |-> FALSE,
     log |-> Append(log, [topic |-> TOPIC_APP_TMPL(SN, cmd), data |-> encode(payload)])]

\* MqttTransport.publish: raise YarboConnectionError unless is_connected, else
\* hand one encoded message on the app topic to the paho client.
publish(is_connected, log, cmd, payload) ==
    IF ~is_connected
    THEN [raised |-> TRUE, log |-> log]
    ELSE [raised |-> FALSE,
          log |-> Append(log, [topic |-> TOPIC_APP_TMPL(SN, cmd), data |-> encode(payload)])]

\* A wait_for_message that looks at its deadline only when the mailbox is empty
wait_for_message_drain_first(box, deadline_passed, feedback_leaf, command_name) ==
    IF box = <<>>
    THEN (IF deadline_passed THEN [kind |-> "timeout", env |-> NoEnv]
          ELSE [kind |-> "block", env |-> NoEnv])
    ELSE LET envelope == Head(box)
         IN IF TopicLeaf(envelope.topic) # feedback_leaf
            THEN [kind |-> "skip", env |-> envelope]
            ELSE IF command_name # Absent /\ envelope.payload.ptopic # command_name
                 THEN [kind |-> "skip", env |-> envelope]
                 ELSE [kind |-> "match", env |-> envelope]

\* A wait_for_message that does not filter by command name
wait_for_message_any_command(box, deadline_passed, feedback_leaf, command_name) ==
    IF deadline_passed THEN [kind |-> "timeout", env |-> NoEnv]
    ELSE IF box = <<>> THEN [kind |-> "block", env |-> NoEnv]
    ELSE LET envelope == Head(box)
         IN IF TopicLeaf(envelope.topic) # feedback_leaf
            THEN [kind |-> "skip", env |-> envelope]
            ELSE [kind |-> "match", env |-> envelope]

\* A wait_for_message that compares the whole topic with the feedback leaf
wait_for_message_whole_topic(box, deadline_passed, feedback_leaf, command_name) ==
    IF deadline_passed THEN [kind |-> "timeout", env |-> NoEnv]
    ELSE IF box = <<>> THEN [kind |-> "block", env |-> NoEnv]
    ELSE LET envelope == Head(box)
         IN IF envelope.topic # <<feedback_leaf>>
            THEN [kind |-> "skip", env |-> envelope]
            ELSE IF command_name # Absent /\ envelope.payload.ptopic # command_name
                 THEN [kind |-> "skip", env |-> envelope]
                 ELSE [kind |-> "match", env |-> envelope]

\* One iteration of the loop of MqttTransport.wait_for_message:
\*   "timeout" remaining <= 0, or wait_for(queue.get()) timed out: return None
\*   "block"   the queue is empty and the deadline has not passed
\*   "skip"    an envelope of another leaf or another command was consumed
\*   "match"   the envelope to return
wait_for_message(box, deadline_passed, feedback_leaf, command_name) ==
    IF deadline_passed THEN [kind |-> "timeout", env |-> NoEnv]
    ELSE IF box = <<>> THEN [kind |-> "block", env |-> NoEnv]
    ELSE LET envelope == Head(box)
         IN IF TopicLeaf(envelope.topic) # feedback_leaf
            THEN [kind |-> "skip", env |-> envelope]
            ELSE IF command_name # Absent /\ envelope.payload.ptopic # command_name
                 THEN [kind |-> "skip", env |-> envelope]
                 ELSE [kind |-> "match", env |-> envelope]

\* A finally block that leaves the mailbox registered
wait_finally_leaky(queues, q) == queues

\* The finally block of wait_for_message: self._message_queues.remove(queue)
wait_finally(queues, q) == ListRemove(queues, q)

\* Can the deadline (loop.time() + timeout, fixed when wait_for_message starts)
\* have passed at this iteration?  Always when timeout <= 0; with a positive
\* timeout not at the first check unless the call then blocks on an empty queue.
MustBeLate(t) == call[t].tmo = "nonpositive"
CanBeLate(t) == MustBeLate(t) \/ pc[t] # "raw_wait0" \/ mbox[tq[t]] = <<>>
Lateness(t) == {late \in BOOLEAN : (late => CanBeLate(t)) /\ (MustBeLate(t) => late)}

\* A task's call ends: the mailbox it held, if any, is dropped.
Finish(t) ==
    /\ pc' = [pc EXCEPT ![t] = "idle"]
    /\ call' = [call EXCEPT ![t] = NoCall]
    /\ tq' = [tq EXCEPT ![t] = 0]
    /\ hs_idx' = [hs_idx EXCEPT ![t] = 0]
    /\ start_acq' = [start_acq EXCEPT ![t] = FALSE]

\* create_wait_queue(); publish(cmd); on an exception release_queue() and
\* re-raise; else enter wait_for_message(_queue=wait_queue) with a positive
\* timeout.  Common to get_controller, _publish_and_wait and the list commands.
\* c is the call, acq0 the controller flag at its start, hs its handshake publish.
PublishAndStartWait(t, c, acq0, hs, cmd, wait_pc) ==
    LET q == FreshQ
        registered == create_wait_queue(message_queues, q)
        p == publish(connected, publog, cmd, CmdPayload(cmd))
    IN /\ HasFreshQ
       /\ publog' = p.log
       /\ IF p.raised
          THEN /\ message_queues' = release_queue(registered, q)
               /\ Finish(t)
               /\ UNCHANGED mbox
               /\ ev' = TEv("publish_raised", t, c, cmd, "conn_err", acq0, hs, NoEnv)
          ELSE /\ message_queues' = registered
               /\ mbox' = [mbox EXCEPT ![q] = <<>>]
               /\ pc' = [pc EXCEPT ![t] = wait_pc]
               /\ call' = [call EXCEPT ![t] = c]
               /\ tq' = [tq EXCEPT ![t] = q]
               /\ hs_idx' = [hs_idx EXCEPT ![t] = IF wait_pc = "gc_wait"
                                                  THEN Len(p.log) ELSE hs]
               /\ start_acq' = [start_acq EXCEPT ![t] = acq0]
               /\ ev' = TEv("published", t, c, cmd, "waiting", acq0,
                            IF wait_pc = "gc_wait" THEN Len(p.log) ELSE hs, NoEnv)

\* publish(cmd) of a fire-and-forget command, the last statement of the call
PublishOwn(t, c, acq0, hs, cmd) ==
    LET p == publish(connected, publog, cmd, CmdPayload(cmd))
    IN /\ publog' = p.log
       /\ Finish(t)
       /\ ev' = TEv(IF p.raised THEN "publish_raised" ELSE "published", t, c, cmd,
                    IF p.raised THEN "conn_err" ELSE "ok", acq0, hs, NoEnv)
       /\ UNCHANGED <<message_queues, mbox>>

\* ------------------------------------------------------------------ session: calls
\* An _ensure_controller that ignores the auto_controller setting
_ensure_controller_forced(auto, acquired) == ~acquired

\* YarboLocalClient._ensure_controller: is a handshake needed?
_ensure_controller(auto, acquired) == auto /\ ~acquired

\* A new call runs in the first idle task, while the publish log has room for
\* the messages the call may publish.
BeginCall(t, need) ==
    /\ pc[t] = "idle"
    /\ \A u \in Tasks : u < t => pc[u] # "idle"
    /\ Len(publog) + need <= MaxPublog

\* YarboLocalClient.get_controller called by the user, up to its first await
CallGetController(t) ==
    /\ BeginCall(t, 1)
    /\ PublishAndStartWait(t, Call("get_controller", "get_controller"), controller_acquired,
                           0, "get_controller", "gc_wait")
    /\ renotified' = (renotified /\ publog' = publog)
    /\ hs_since_drop' = (hs_since_drop \/ (ev'.cmd = "get_controller" /\ ev'.type = "published"))
    /\ UNCHANGED <<envvars, controller_acquired>>

\* The start of a command that calls _ensure_controller() first: the handshake
\* when it is needed, else the command's own publish.
CallEnsuring(t, c) ==
    /\ BeginCall(t, IF _ensure_controller(auto_controller, controller_acquired) THEN 2 ELSE 1)
    /\ IF _ensure_controller(auto_controller, controller_acquired)
       THEN PublishAndStartWait(t, c, controller_acquired, 0, "get_controller", "gc_wait")
       ELSE IF c.api = "action"
            THEN PublishOwn(t, c, controller_acquired, 0, c.cmd)
            ELSE PublishAndStartWait(t, c, controller_acquired, 0, c.cmd, "ack_wait")
    /\ renotified' = (renotified /\ publog' = publog)
    /\ hs_since_drop' = (hs_since_drop \/ (ev'.cmd = "get_controller" /\ ev'.type = "published"))
    /\ UNCHANGED <<envvars, controller_acquired>>

\* A fire-and-forget action command (set_lights, buzzer, set_chute,
\* start_manual_drive, set_velocity, set_roller, publish_raw)
CallAction(t, cmd) == CallEnsuring(t, Call("action", cmd))

\* A _publish_and_wait-based command (start_plan, stop_plan, ...)
CallPublishAndWait(t, cmd) == CallEnsuring(t, Call("paw", cmd))

\* list_schedules / list_plans / get_global_params / get_map, up to the first
\* await: no handshake; create_wait_queue, publish, wait_for_message
CallList(t, cmd) ==
    /\ BeginCall(t, 1)
    /\ PublishAndStartWait(t, Call("list", cmd), controller_acquired, 0, cmd, "ack_wait")
    /\ UNCHANGED <<envvars, histvars, controller_acquired>>


\* ------------------------------------------------------------------ session: handshake
\* A get_controller that marks the role as acquired when the wait timed out
get_controller_optimistic(kind, payload, acquired) ==
    IF kind = "timeout"
    THEN [out |-> "timeout_err", acquired |-> TRUE]
    ELSE LET result == from_dict(payload)
         IN IF ~result.success
            THEN [out |-> "not_controller", acquired |-> acquired]
            ELSE [out |-> "ok", acquired |-> TRUE]

\* YarboLocalClient.get_controller after wait_for_message returned msg
\* (kind "timeout": msg is None): the outcome and the controller flag.
get_controller(kind, payload, acquired) ==
    IF kind = "timeout"
    THEN [out |-> "timeout_err", acquired |-> acquired]
    ELSE LET result == from_dict(payload)
         IN IF ~result.success
            THEN [out |-> "not_controller", acquired |-> acquired]
            ELSE [out |-> "ok", acquired |-> TRUE]

\* One iteration of wait_for_message inside get_controller, and what follows
\* its return up to the next await (the sleep of _ensure_controller) or the end.
GetControllerWait(t, late) ==
    /\ pc[t] = "gc_wait"
    /\ late \in Lateness(t)
    /\ LET q == tq[t]
           o == wait_for_message(mbox[q], late, TOPIC_LEAF_DATA_FEEDBACK, "get_controller")
           g == get_controller(o.kind, o.env.payload, controller_acquired)
       IN /\ o.kind # "block"
          /\ IF o.kind = "skip"
             THEN /\ mbox' = [mbox EXCEPT ![q] = Tail(@)]
                  /\ ev' = TEv("skip", t, call[t], "get_controller", "skip",
                               start_acq[t], hs_idx[t], o.env)
                  /\ UNCHANGED <<message_queues, controller_acquired, taskvars>>
             ELSE /\ message_queues' = wait_finally(message_queues, q)
                  /\ mbox' = [mbox EXCEPT ![q] = <<>>]
                  /\ controller_acquired' = g.acquired
                  /\ ev' = TEv("gc_done", t, call[t], "get_controller", g.out,
                               start_acq[t], hs_idx[t], o.env)
                  /\ IF g.out = "ok" /\ call[t].api # "get_controller"
                     THEN /\ pc' = [pc EXCEPT ![t] = "settle"]
                          /\ tq' = [tq EXCEPT ![t] = 0]
                          /\ UNCHANGED <<call, hs_idx, start_acq>>
                     ELSE Finish(t)
    /\ UNCHANGED <<envvars, histvars, publog>>

\* _ensure_controller's asyncio.sleep(0.5) is over: the command's own publish
SettleDone(t) ==
    /\ pc[t] = "settle"
    /\ IF call[t].api = "action"
       THEN PublishOwn(t, call[t], start_acq[t], hs_idx[t], call[t].cmd)
       ELSE PublishAndStartWait(t, call[t], start_acq[t], hs_idx[t], call[t].cmd, "ack_wait")
    /\ UNCHANGED <<envvars, histvars, controller_acquired>>

\* A correlation that turns every timeout into an empty value
correlate_lenient(api, kind) ==
    IF kind = "timeout" THEN "empty"
    ELSE (IF api = "paw" THEN "ok" ELSE "value")

\* What a correlated command makes of wait_for_message's return value:
\* _publish_and_wait raises YarboTimeoutError on None and returns
\* from_dict(msg) otherwise; the list commands return an empty value on None.
correlate(api, kind) ==
    IF kind = "timeout"
    THEN (IF api = "paw" THEN "timeout_err" ELSE "empty")
    ELSE (IF api = "paw" THEN "ok" ELSE "value")

\* One iteration of wait_for_message inside _publish_and_wait or a list command
AckWait(t, late) ==
    /\ pc[t] = "ack_wait"
    /\ late \in Lateness(t)
    /\ LET q == tq[t]
           o == wait_for_message(mbox[q], late, TOPIC_LEAF_DATA_FEEDBACK, call[t].cmd)
       IN /\ o.kind # "block"
          /\ IF o.kind = "skip"
             THEN /\ mbox' = [mbox EXCEPT ![q] = Tail(@)]
                  /\ ev' = TEv("skip", t, call[t], call[t].cmd, "skip",
                               start_acq[t], hs_idx[t], o.env)
                  /\ UNCHANGED <<message_queues, taskvars>>
             ELSE /\ message_queues' = wait_finally(message_queues, q)
                  /\ mbox' = [mbox EXCEPT ![q] = <<>>]
                  /\ ev' = TEv("ack_done", t, call[t], call[t].cmd,
                               correlate(call[t].api, o.kind), start_acq[t], hs_idx[t], o.env)
                  /\ Finish(t)
    /\ UNCHANGED <<envvars, histvars, publog, controller_acquired>>

\* The task is cancelled while suspended in wait_for_message: CancelledError
\* propagates through the finally block.
Cancel(t) ==
    /\ pc[t] \in {"gc_wait", "ack_wait", "raw_wait0", "raw_wait", "stream_get"}
    /\ message_queues' = wait_finally(message_queues, tq[t])
    /\ mbox' = [mbox EXCEPT ![tq[t]] = <<>>]
    /\ Finish(t)
    /\ ev' = TEv("cancelled", t, call[t], call[t].cmd, "cancelled",
                 start_acq[t], hs_idx[t], NoEnv)
    /\ UNCHANGED <<envvars, histvars, publog, controller_acquired>>

\* ------------------------------------------------------------------ transport used directly
\* create_wait_queue() by a caller that will wait for (leaf, name) with the
\* given timeout later
RawCreate(t, leaf, name, tmo) ==
    /\ BeginCall(t, 0)
    /\ HasFreshQ
    /\ message_queues' = create_wait_queue(message_queues, FreshQ)
    /\ mbox' = [mbox EXCEPT ![FreshQ] = <<>>]
    /\ pc' = [pc EXCEPT ![t] = "hold"]
    /\ call' = [call EXCEPT ![t] = RawCall("raw", leaf, name, tmo)]
    /\ tq' = [tq EXCEPT ![t] = FreshQ]
    /\ ev' = TEv("create_wait_queue", t, RawCall("raw", leaf, name, tmo), Absent, "hold",
                 FALSE, 0, NoEnv)
    /\ UNCHANGED <<envvars, histvars, publog, controller_acquired, hs_idx, start_acq>>

\* release_queue(q) by a caller that gives up before waiting
RawRelease(t) ==
    /\ pc[t] = "hold"
    /\ message_queues' = release_queue(message_queues, tq[t])
    /\ mbox' = [mbox EXCEPT ![tq[t]] = <<>>]
    /\ Finish(t)
    /\ ev' = TEv("release_queue", t, call[t], Absent, "released", FALSE, 0, NoEnv)
    /\ UNCHANGED <<envvars, histvars, publog, controller_acquired>>

\* wait_for_message(timeout, leaf, name, _queue=q) is entered
RawWait(t) ==
    /\ pc[t] = "hold"
    /\ pc' = [pc EXCEPT ![t] = "raw_wait0"]
    /\ ev' = TEv("wait_start", t, call[t], Absent, "waiting", FALSE, 0, NoEnv)
    /\ UNCHANGED <<envvars, histvars, message_queues, mbox, publog, controller_acquired, call, tq,
                   hs_idx, start_acq>>

\* wait_for_message(timeout, leaf, name) without _queue (get_status): the
\* mailbox is created and registered by the call itself
RawWaitNew(t, leaf, name, tmo) ==
    /\ BeginCall(t, 0)
    /\ HasFreshQ
    /\ message_queues' = Append(message_queues, FreshQ)
    /\ mbox' = [mbox EXCEPT ![FreshQ] = <<>>]
    /\ pc' = [pc EXCEPT ![t] = "raw_wait0"]
    /\ call' = [call EXCEPT ![t] = RawCall("rawnew", leaf, name, tmo)]
    /\ tq' = [tq EXCEPT ![t] = FreshQ]
    /\ ev' = TEv("wait_start", t, RawCall("rawnew", leaf, name, tmo), Absent, "waiting",
                 FALSE, 0, NoEnv)
    /\ UNCHANGED <<envvars, histvars, publog, controller_acquired, hs_idx, start_acq>>

\* One iteration of wait_for_message called directly
RawStep(t, late) ==
    /\ pc[t] \in {"raw_wait0", "raw_wait"}
    /\ late \in Lateness(t)
    /\ LET q == tq[t]
           o == wait_for_message(mbox[q], late, call[t].leaf, call[t].name)
       IN /\ o.kind # "block"
          /\ IF o.kind = "skip"
             THEN /\ mbox' = [mbox EXCEPT ![q] = Tail(@)]
                  /\ pc' = [pc EXCEPT ![t] = "raw_wait"]
                  /\ ev' = [TEv("skip", t, call[t], Absent, "skip", FALSE, 0, o.env)
                               EXCEPT !.first = (pc[t] = "raw_wait0"), !.late = late]
                  /\ UNCHANGED <<message_queues, call, tq, hs_idx, start_acq>>
             ELSE /\ message_queues' = wait_finally(message_queues, q)
                  /\ mbox' = [mbox EXCEPT ![q] = <<>>]
                  /\ ev' = [TEv("wait_done", t, call[t], Absent,
                                IF o.kind = "timeout" THEN "nil" ELSE "value", FALSE, 0, o.env)
                               EXCEPT !.first = (pc[t] = "raw_wait0"), !.late = late]
                  /\ Finish(t)
    /\ UNCHANGED <<envvars, histvars, publog, controller_acquired>>


\* ------------------------------------------------------------------ telemetry stream
\* models.TelemetryEnvelope as telemetry_stream builds it from an envelope
TelemetryEnvelope(envelope) ==
    [kind |-> TopicLeaf(envelope.topic), payload |-> envelope.payload,
     topic |-> envelope.topic]

\* A loop condition that never ends the stream
stream_continues_always(is_connected) == TRUE

\* telemetry_stream: the loop condition `while self.is_connected`
stream_continues(is_connected) == is_connected

\* telemetry_stream: wait_for(queue.get(), timeout=5.0) and what follows:
\* the oldest envelope is taken and yielded, or the wait times out on an
\* empty queue and the loop continues
stream_get(box) ==
    IF box = <<>> THEN [kind |-> "timeout", env |-> NoEnv, out |-> Absent]
    ELSE [kind |-> "yield", env |-> Head(box), out |-> TelemetryEnvelope(Head(box))]

\* telemetry_stream: the finally block, self._message_queues.remove(queue)
stream_finally(queues, q) == ListRemove(queues, q)

\* The first iteration of `async for` over telemetry_stream(): the mailbox is
\* created and registered and the loop condition is evaluated; a stream
\* started on a transport that is not connected ends at once.
StreamStart(t) ==
    /\ BeginCall(t, 0)
    /\ HasFreshQ
    /\ LET q == FreshQ
           c == Call("stream", Absent)
       IN IF stream_continues(connected)
          THEN /\ message_queues' = Append(message_queues, q)
               /\ mbox' = [mbox EXCEPT ![q] = <<>>]
               /\ pc' = [pc EXCEPT ![t] = "stream_get"]
               /\ call' = [call EXCEPT ![t] = c]
               /\ tq' = [tq EXCEPT ![t] = q]
               /\ ev' = TEv("stream_start", t, c, Absent, "waiting", FALSE, 0, NoEnv)
               /\ UNCHANGED <<hs_idx, start_acq>>
          ELSE /\ message_queues' = stream_finally(Append(message_queues, q), q)
               /\ ev' = TEv("stream_end", t, c, Absent, "ended", FALSE, 0, NoEnv)
               /\ UNCHANGED <<mbox, taskvars>>
    /\ UNCHANGED <<envvars, histvars, publog, controller_acquired>>

\* The stream runs on: the consumer asks for the next envelope and the loop
\* condition is evaluated ("stream_check"), or the wait for the mailbox ends
\* ("stream_get")
StreamStep(t) ==
    /\ pc[t] \in {"stream_check", "stream_get"}
    /\ LET q == tq[t]
           g == stream_get(mbox[q])
       IN IF pc[t] = "stream_check"
          THEN IF stream_continues(connected)
               THEN /\ pc' = [pc EXCEPT ![t] = "stream_get"]
                    /\ ev' = TEv("stream_wait", t, call[t], Absent, "waiting", FALSE, 0, NoEnv)
                    /\ UNCHANGED <<message_queues, mbox, call, tq, hs_idx, start_acq>>
               ELSE /\ message_queues' = stream_finally(message_queues, q)
                    /\ mbox' = [mbox EXCEPT ![q] = <<>>]
                    /\ ev' = TEv("stream_end", t, call[t], Absent, "ended", FALSE, 0, NoEnv)
                    /\ Finish(t)
          ELSE /\ pc' = [pc EXCEPT ![t] = "stream_check"]
               /\ mbox' = [mbox EXCEPT ![q] = IF g.kind = "yield" THEN Tail(@) ELSE @]
               /\ ev' = IF g.kind = "yield"
                        THEN TEv("yield", t, call[t], g.out.kind, "yield", FALSE, 0, g.env)
                        ELSE TEv("stream_timeout", t, call[t], Absent, "timeout", FALSE, 0, NoEnv)
               /\ UNCHANGED <<message_queues, call, tq, hs_idx, start_acq>>
    /\ UNCHANGED <<envvars, histvars, publog, controller_acquired>>

\* ------------------------------------------------------------------ inbound messages
\* A command acknowledgement on data_feedback: {"topic": cmd, "state": st}
AckMsg(cmd, st) ==
    [topic |-> TOPIC_DEVICE_TMPL(SN, TOPIC_LEAF_DATA_FEEDBACK), data |-> encode(Doc(cmd, st))]

\* A telemetry message on DeviceMSG
TelemetryMsg ==
    [topic |-> TOPIC_DEVICE_TMPL(SN, TOPIC_LEAF_DEVICE_MSG), data |-> encode(EmptyDoc)]

\* heart_beat: plain, uncompressed JSON
HeartBeatMsg ==
    [topic |-> TOPIC_DEVICE_TMPL(SN, TOPIC_LEAF_HEART_BEAT), data |-> Wire(FALSE, TRUE, EmptyDoc)]

\* Bytes that are neither zlib nor JSON, and bytes that decompress to text
\* that is not JSON
GarbageMsg ==
    [topic |-> TOPIC_DEVICE_TMPL(SN, TOPIC_LEAF_DATA_FEEDBACK), data |-> Wire(FALSE, FALSE, EmptyDoc)]
ZlibNotJsonMsg ==
    [topic |-> TOPIC_DEVICE_TMPL(SN, TOPIC_LEAF_DATA_FEEDBACK), data |-> Wire(TRUE, FALSE, EmptyDoc)]

SessionMsgs == {AckMsg("get_controller", "0"), AckMsg("get_controller", "1"),
                AckMsg("start_plan", "0")}

\* ------------------------------------------------------------------ discovery.py
\* what gather holds for the probe_one task of candidate i: None, the exception,
\* or the endpoint (known here by its path) with the MAC and hostname looked up
TaskResult(tasks, i) ==
    [ip |-> tasks[i].ip, path |-> tasks[i].result, mac |-> tasks[i].mac,
     hostname |-> tasks[i].hostname]

gather_as_completed(tasks, done_order) ==
    [k \in 1..Len(done_order) |-> TaskResult(tasks, done_order[k])]

\* results of probe_one, in the order of unique_candidates: asyncio.gather
\* returns one result per awaitable in the order the awaitables were given
gather(tasks, done_order) == [i \in 1..Len(tasks) |-> TaskResult(tasks, i)]

\* gather(..., return_exceptions=True) hands an exception of a task back as that
\* task's result; without the flag the first exception would leave gather
return_exceptions == TRUE
gather_raises(tasks) == ~return_exceptions /\ \E i \in 1..Len(tasks) : tasks[i].result = "exc"

IsNotNone(r) == r.path # "none"
IsYarboEndpoint(r) == r.path \in {"dc", "rover"}

\* the loop over results: endpoints confirmed by their probe, each built with
\* recommended=False; None and exceptions are left out
collect(results) ==
    LET found == SelectSeq(results, IsYarboEndpoint) IN
    [i \in 1..Len(found) |-> [ip |-> found[i].ip, path |-> found[i].path, mac |-> found[i].mac,
                               hostname |-> found[i].hostname, recommended |-> FALSE]]

has_rover(es) == \E i \in 1..Len(es) : es[i].path = "rover"
has_dc(es) == \E i \in 1..Len(es) : es[i].path = "dc"

\* next((k for k in positions if k in S), 0): the first position that is in S
FirstIndex(S) == IF S = {} THEN 0 ELSE CHOOSE i \in S : \A j \in S : i <= j

IsDc(es) == {i \in 1..Len(es) : es[i].path = "dc"}
IsRecommended(es) == {i \in 1..Len(es) : es[i].recommended}

recommended_first(es) == IF Len(es) > 0 THEN 1 ELSE 0

\* position in endpoints of recommended_one; 0 stands for None
recommended_one(es) ==
    IF Len(es) = 1 THEN 1
    ELSE IF has_dc(es) /\ has_rover(es) THEN FirstIndex(IsDc(es))
    ELSE IF Len(es) > 0 THEN 1 ELSE 0

mark_by_path(es, one) ==
    [i \in 1..Len(es) |-> [es[i] EXCEPT !.recommended = (one # 0 /\ es[i].path = es[one].path)]]

\* for e in endpoints: e.recommended = e is recommended_one
mark(es, one) == [i \in 1..Len(es) |-> [es[i] EXCEPT !.recommended = (i = one)]]

\* the tail of discover(): gather, collect, choose, mark, return
discover_result(tasks, done_order) ==
    LET es == collect(gather(tasks, done_order)) IN mark(es, recommended_one(es))

\* An endpoint object is known by its ip field: two entries of a list with the
\* same ip are the same object, so `e is not recommended` is e.ip # recommended.ip
IsNot(e, other) == e.ip # other.ip

Reverse(s) == [k \in 1..Len(s) |-> s[Len(s) + 1 - k]]

connection_order_rest_reversed(es) ==
    LET r == FirstIndex(IsRecommended(es)) IN
    IF r = 0 THEN es
    ELSE <<es[r]>> \o Reverse(SelectSeq(es, LAMBDA e : IsNot(e, es[r])))

connection_order(es) ==
    LET r == FirstIndex(IsRecommended(es)) IN
    IF r = 0 THEN es
    ELSE <<es[r]>> \o SelectSeq(es, LAMBDA e : IsNot(e, es[r]))

\* the endpoint objects a caller can hold, and the lists it can build from them
YarboEndpoint ==
    [ip : 1..MaxCandidates, path : {"dc", "rover"}, mac : {<<>>}, hostname : {Absent},
     recommended : BOOLEAN]
EndpointLists ==
    {es \in UNION {[1..n -> YarboEndpoint] : n \in 0..MaxCandidates} :
        \A i, j \in 1..Len(es) : es[i].ip = es[j].ip => es[i] = es[j]}

\* a caller passes a list of its own to connection_order
\* (one call in a behaviour: the function keeps no state between calls)
ConnectionOrderCall(es) ==
    /\ ret.fn = "none"
    /\ ret' = [fn |-> "connection_order", args |-> es, value |-> connection_order(es)]
    /\ UNCHANGED <<clientvars, discvars, wcvars>>

\* --- classification.  A MAC address is the sequence of its characters.
HexVal(c) ==
    CASE c = "0" -> 0 [] c = "1" -> 1 [] c = "2" -> 2 [] c = "3" -> 3
      [] c = "8" -> 8 [] c = "9" -> 9 [] c = "a" -> 10 [] c = "c" -> 12
      [] c = "e" -> 14 [] c = "E" -> 14 [] c = "f" -> 15
      [] OTHER -> -1

\* int(text, 16) of at most two characters; -1 stands for ValueError
IntBase16(text) ==
    IF text = <<>> \/ \E k \in 1..Len(text) : HexVal(text[k]) = -1 THEN -1
    ELSE IF Len(text) = 1 THEN HexVal(text[1])
    ELSE 16 * HexVal(text[1]) + HexVal(text[2])

\* mac.replace(":", "").replace("-", "")
StripSeparators(mac) == SelectSeq(mac, LAMBDA c : c \notin {":", "-"})

Prefix(s, n) == SubSeq(s, 1, IF Len(s) < n THEN Len(s) ELSE n)

is_dc_endpoint_multicast_bit(mac) ==
    LET first_octet == IntBase16(Prefix(StripSeparators(mac), 2)) IN
    IF first_octet = -1 THEN FALSE ELSE first_octet % 2 = 1

\* bool(first_octet & 0x02); False on ValueError
is_dc_endpoint(mac) ==
    LET first_octet == IntBase16(Prefix(StripSeparators(mac), 2)) IN
    IF first_octet = -1 THEN FALSE ELSE (first_octet \div 2) % 2 = 1

\* A hostname is a sequence of pieces of text; the hint is one whole piece or
\* in none.  upper() of a piece:
Upper(piece) ==
    CASE piece \in {"yarbo", "Yarbo", "YARBO"} -> "YARBO"
      [] piece = "my" -> "MY"
      [] piece = "dc" -> "DC"
      [] piece = "rover" -> "ROVER"
      [] OTHER -> piece

DC_HOSTNAME_HINT == "YARBO"

\* DC_HOSTNAME_HINT.upper() in hostname.upper(); False for None and ""
_hostname_indicates_dc(hostname) ==
    IF hostname = Absent THEN FALSE
    ELSE IF hostname = <<>> THEN FALSE
    ELSE \E k \in 1..Len(hostname) : Upper(hostname[k]) = Upper(DC_HOSTNAME_HINT)

\* probe_one: path
classify(mac, hostname) ==
    IF is_dc_endpoint(mac) \/ _hostname_indicates_dc(hostname) THEN "dc" ELSE "rover"

\* _verify_yarbo_heartbeat: (True, sn) for a heart_beat with working_state;
\* (False, "") on timeout and on every exception
_verify_yarbo_heartbeat(heard) == heard = "working_state"

\* MAC addresses and hostnames the lookups can come back with
Macs ==
    {<<>>, <<"z", "z", ":", "0", "0">>} \cup
    {<<a, b, sep, "0", "0">> : a \in {"0", "9", "c"}, b \in {"0", "2", "8", "e", "E"},
                               sep \in {":", "-"}}
Hostnames ==
    {Absent, <<>>, <<"yarbo", "-", "dc">>, <<"my", "Yarbo">>, <<"YARBO">>, <<"rover", "-", "1">>}
\* the two kinds of endpoint a scan of a home network meets
ScanMacs == {<<"c", "8", ":", "0", "0">>, <<"9", "e", ":", "0", "0">>}

Candidates == 1..Len(probes)
holding_semaphore == {i \in Candidates : probes[i].stage \in {"tcp", "heartbeat", "lookup"}}

ProbeDone(i, result) ==
    /\ probes' = [probes EXCEPT ![i] = [result EXCEPT !.stage = "done"]]
    /\ completed' = Append(completed, i)

unique_candidates_all(candidates) == candidates

\* unique_candidates = [c for c in candidates if not (c in seen or seen.add(c))]:
\* the first occurrence of every address, in order
unique_candidates(candidates) ==
    LET first == SelectSeq([i \in 1..Len(candidates) |-> i],
                           LAMBDA i : \A j \in 1..(i - 1) : candidates[j] # candidates[i])
    IN [k \in 1..Len(first) |-> candidates[first[k]]]

\* (probe_one(ip) for ip in unique_candidates): the tasks handed to gather
probe_tasks(unique) ==
    [i \in 1..Len(unique) |-> [ip |-> unique[i], stage |-> "queued", result |-> "none",
                                tcp |-> "none", heard |-> "none", mac |-> <<>>,
                                hostname |-> Absent]]

\* discover() is called: n unique candidates, one probe_one task each
Discover(n) ==
    /\ disc_pc \in {"idle", "returned"}
    /\ disc_pc' = "scanning"
    /\ probes' = probe_tasks([i \in 1..n |-> i])
    /\ completed' = <<>>
    /\ endpoints' = <<>>
    /\ UNCHANGED <<clientvars, libvars>>

\* Candidate lists as discover() collects them from KNOWN_BROKER_IPS and the
\* subnets, with repeated addresses; an address is named by the position of
\* its first occurrence among the distinct ones
CandidateLists ==
    {c \in UNION {[1..n -> 1..MaxCandidates] : n \in 1..(MaxCandidates + 1)} :
        \A i \in 1..Len(c) : \A a \in 1..(c[i] - 1) : \E j \in 1..(i - 1) : c[j] = a}

\* discover() is called with a candidate list that can repeat addresses
DiscoverCandidates(candidates) ==
    /\ disc_pc \in {"idle", "returned"}
    /\ disc_pc' = "scanning"
    /\ probes' = probe_tasks(unique_candidates(candidates))
    /\ completed' = <<>>
    /\ endpoints' = <<>>
    /\ ret' = [fn |-> "discover", args |-> candidates, value |-> <<>>]
    /\ UNCHANGED <<clientvars, wcvars>>

\* async with semaphore
ProbeStart(i) ==
    /\ disc_pc = "scanning"
    /\ i \in Candidates
    /\ probes[i].stage = "queued"
    /\ Cardinality(holding_semaphore) < SCAN_CONCURRENCY
    /\ probes' = [probes EXCEPT ![i].stage = "tcp"]
    /\ UNCHANGED <<clientvars, libvars, disc_pc, completed, endpoints>>

\* open_connection under wait_for: TimeoutError / OSError returns None; any
\* other exception ends the task
ProbeTcp(i, tcp) ==
    /\ disc_pc = "scanning"
    /\ i \in Candidates
    /\ probes[i].stage = "tcp"
    /\ tcp \in {"ok", "fail", "exc"}
    /\ IF tcp = "ok"
       THEN probes' = [probes EXCEPT ![i].stage = "heartbeat", ![i].tcp = tcp]
            /\ UNCHANGED completed
       ELSE ProbeDone(i, [probes[i] EXCEPT !.tcp = tcp,
                                            !.result = IF tcp = "exc" THEN "exc" ELSE "none"])
    /\ UNCHANGED <<clientvars, libvars, disc_pc, endpoints>>

\* is_yarbo, sn = await _verify_yarbo_heartbeat(...); not is_yarbo returns None
ProbeVerify(i, heard) ==
    /\ disc_pc = "scanning"
    /\ i \in Candidates
    /\ probes[i].stage = "heartbeat"
    /\ heard \in {"working_state", "timeout", "error"}
    /\ IF _verify_yarbo_heartbeat(heard)
       THEN probes' = [probes EXCEPT ![i].stage = "lookup", ![i].heard = heard]
            /\ UNCHANGED completed
       ELSE ProbeDone(i, [probes[i] EXCEPT !.heard = heard, !.result = "none"])
    /\ UNCHANGED <<clientvars, libvars, disc_pc, endpoints>>

\* MAC and hostname lookups in the executor, then the path; an exception the
\* lookups do not catch ends the task and gather keeps it as the result
ProbeClassify(i, mac, hostname, raises) ==
    /\ disc_pc = "scanning"
    /\ i \in Candidates
    /\ probes[i].stage = "lookup"
    /\ IF raises
       THEN ProbeDone(i, [probes[i] EXCEPT !.result = "exc"])
       ELSE ProbeDone(i, [probes[i] EXCEPT !.result = classify(mac, hostname),
                                            !.mac = mac, !.hostname = hostname])
    /\ UNCHANGED <<clientvars, libvars, disc_pc, endpoints>>

\* gather is through: every probe_one task is done; discover() returns
DiscoverReturn ==
    /\ disc_pc = "scanning"
    /\ \A i \in Candidates : probes[i].stage = "done"
    /\ IF gather_raises(probes)
       THEN disc_pc' = "raised" /\ endpoints' = <<>>
       ELSE disc_pc' = "returned" /\ endpoints' = discover_result(probes, completed)
    /\ UNCHANGED <<clientvars, libvars, probes, completed>>

\* ------------------------------------------------------------------ _cli.py
\* keyword parameters of YarboLocalClient.__init__
LocalClientParams == {"broker", "sn", "port", "auto_controller"}

\* YarboLocalClient(**kwargs): TypeError for a keyword __init__ does not take,
\* ValueError for an empty broker
YarboLocalClient_init(kwargs, broker_set) ==
    IF ~(kwargs \subseteq LocalClientParams) THEN "TypeError"
    ELSE IF ~broker_set THEN "ValueError"
    ELSE "ok"

\* the keywords _with_client passes for an endpoint
WithClientKwargs == {"broker", "port", "sn", "mqtt_log_path"}

\* except (YarboError, OSError, TimeoutError), with the subclasses connect raises
CaughtErrors == {"YarboError", "YarboConnectionError", "YarboTimeoutError", "OSError", "TimeoutError"}

\* what YarboLocalClient.connect can end with
ConnectOutcomes == {"ok", "YarboConnectionError", "YarboTimeoutError"}

\* _with_client without --broker/--serial: discover() has returned; no endpoint
\* is SystemExit, else the loop starts over connection_order(endpoints)
WithClientStart ==
    /\ wc_pc = "idle"
    /\ disc_pc = "returned"
    /\ IF endpoints = <<>>
       THEN wc_pc' = "no_endpoints" /\ UNCHANGED ordered
       ELSE wc_pc' = "trying" /\ ordered' = connection_order(endpoints)
    /\ last_err' = Absent
    /\ tried' = <<>>
    /\ UNCHANGED <<clientvars, discvars, ret>>

\* one pass of `for ep in ordered`: build the client, connect; a caught error
\* is kept in last_err and the loop goes on, or ends in SystemExit after the
\* last endpoint; any other exception leaves the loop at once
WithClientTry(connect_outcome) ==
    /\ wc_pc = "trying"
    /\ Len(tried) < Len(ordered)
    /\ connect_outcome \in ConnectOutcomes
    /\ LET ep == ordered[Len(tried) + 1]
           built == YarboLocalClient_init(WithClientKwargs, TRUE)
           outcome == IF built = "ok" THEN connect_outcome ELSE built
       IN /\ tried' = Append(tried, [ip |-> ep.ip, outcome |-> outcome])
          /\ IF outcome = "ok"
             THEN wc_pc' = "yielded" /\ UNCHANGED last_err
             ELSE IF outcome \in CaughtErrors
             THEN /\ last_err' = [ip |-> ep.ip, error |-> outcome]
                  /\ wc_pc' = IF Len(tried) + 1 = Len(ordered) THEN "all_failed" ELSE "trying"
             ELSE wc_pc' = "raised" /\ UNCHANGED last_err
    /\ UNCHANGED <<clientvars, discvars, ordered, ret>>

\* ------------------------------------------------------------------ _codec.py, byte level
\* A byte string is a sequence of tokens: a token is a piece of JSON text
\* (punctuation, a string literal, a number), a byte that is no UTF-8
\* (kind "bad"), or a piece of a compressed stream (header, run count, trailer).
Tok(k, s) == [k |-> k, s |-> s, n |-> 0]
LBRACE == Tok("punct", "{")
RBRACE == Tok("punct", "}")
COLON == Tok("punct", ":")
COMMA == Tok("punct", ",")
BAD_UTF8 == Tok("bad", "ff")
ZHDR == Tok("zlib", "header")
ZEND == Tok("zlib", "adler32")
Run(n) == [k |-> "run", s |-> "", n |-> n]

\* JSON values: t is "int", "str" or "obj"; an object is the sequence of its
\* (key, value) pairs in insertion order, keys distinct
JInt(s) == [t |-> "int", v |-> <<s>>]
JStr(s) == [t |-> "str", v |-> <<s>>]
JObj(pairs) == [t |-> "obj", v |-> pairs]
JNull == [t |-> "null", v |-> <<>>]

\* dict.__setitem__: a key already there keeps its place and takes the new value
Put(pairs, key, val) ==
    IF \E k \in 1..Len(pairs) : pairs[k].key = key
    THEN [k \in 1..Len(pairs) |-> IF pairs[k].key = key THEN [key |-> key, val |-> val] ELSE pairs[k]]
    ELSE Append(pairs, [key |-> key, val |-> val])

\* json.dumps(payload, separators=(",", ":"))
RECURSIVE json_dumps(_), dumps_members(_)
dumps_members(pairs) ==
    IF pairs = <<>> THEN <<>>
    ELSE <<Tok("str", pairs[1].key), COLON>> \o json_dumps(pairs[1].val)
         \o (IF Len(pairs) > 1 THEN <<COMMA>> \o dumps_members(Tail(pairs)) ELSE <<>>)

json_dumps(val) ==
    CASE val.t = "int" -> <<Tok("num", val.v[1])>>
      [] val.t = "str" -> <<Tok("str", val.v[1])>>
      [] val.t = "obj" -> <<LBRACE>> \o dumps_members(val.v) \o <<RBRACE>>

\* json.loads: the parser; ok is FALSE for JSONDecodeError
ParseFail == [ok |-> FALSE, val |-> JNull, pos |-> 0]
RECURSIVE parse_value(_, _), parse_members(_, _, _)
parse_members(toks, pos, acc) ==
    IF pos + 1 > Len(toks) THEN ParseFail
    ELSE IF toks[pos].k # "str" \/ toks[pos + 1] # COLON THEN ParseFail
    ELSE LET v == parse_value(toks, pos + 2) IN
         IF ~v.ok \/ v.pos > Len(toks) THEN ParseFail
         ELSE IF toks[v.pos] = RBRACE
              THEN [ok |-> TRUE, val |-> JObj(Put(acc, toks[pos].s, v.val)), pos |-> v.pos + 1]
         ELSE IF toks[v.pos] = COMMA
              THEN parse_members(toks, v.pos + 1, Put(acc, toks[pos].s, v.val))
         ELSE ParseFail

parse_value(toks, pos) ==
    IF pos > Len(toks) THEN ParseFail
    ELSE CASE toks[pos].k = "num" -> [ok |-> TRUE, val |-> JInt(toks[pos].s), pos |-> pos + 1]
           [] toks[pos].k = "str" -> [ok |-> TRUE, val |-> JStr(toks[pos].s), pos |-> pos + 1]
           [] toks[pos] = LBRACE ->
                  IF pos + 1 <= Len(toks) /\ toks[pos + 1] = RBRACE
                  THEN [ok |-> TRUE, val |-> JObj(<<>>), pos |-> pos + 2]
                  ELSE parse_members(toks, pos + 1, <<>>)
           [] OTHER -> ParseFail

\* json.loads(bytes): UnicodeDecodeError for bytes that are no UTF-8,
\* JSONDecodeError for text that is no JSON document
json_loads(data) ==
    IF \E k \in 1..Len(data) : data[k].k = "bad"
    THEN [err |-> "UnicodeDecodeError", val |-> JNull]
    ELSE LET r == parse_value(data, 1) IN
         IF r.ok /\ r.pos = Len(data) + 1 THEN [err |-> "none", val |-> r.val]
         ELSE [err |-> "JSONDecodeError", val |-> JNull]

\* zlib.compress: header, the data as runs (count, token), checksum trailer
RunLength(s) ==
    CHOOSE n \in 1..Len(s) :
        /\ \A k \in 1..n : s[k] = s[1]
        /\ n = Len(s) \/ s[n + 1] # s[1]

RECURSIVE deflate(_)
deflate(s) ==
    IF s = <<>> THEN <<>>
    ELSE <<Run(RunLength(s)), s[1]>> \o deflate(SubSeq(s, RunLength(s) + 1, Len(s)))

zlib_compress(data) == <<ZHDR>> \o deflate(data) \o <<ZEND>>

RECURSIVE inflate(_)
inflate(z) ==
    IF z = <<>> THEN <<>>
    ELSE [k \in 1..z[1].n |-> z[2]] \o inflate(SubSeq(z, 3, Len(z)))

\* zlib.decompress: ok is FALSE for zlib.error (no header, no trailer, a body
\* that is not a sequence of runs)
zlib_decompress(data) ==
    LET body == SubSeq(data, 2, Len(data) - 1) IN
    IF /\ Len(data) >= 2
       /\ data[1] = ZHDR
       /\ data[Len(data)] = ZEND
       /\ Len(body) % 2 = 0
       /\ \A k \in 1..Len(body) : (k % 2 = 1) => (body[k].k = "run" /\ body[k].n >= 1)
    THEN [ok |-> TRUE, data |-> inflate(body)]
    ELSE [ok |-> FALSE, data |-> <<>>]

codec_encode_uncompressed(payload) == <<ZHDR>> \o json_dumps(payload) \o <<ZEND>>

\* encode(payload)
codec_encode(payload) == zlib_compress(json_dumps(payload))

\* {"_raw": data[:512].hex()}
RawSentinel(data) == [t |-> "raw", v |-> data]

\* decode(data): raised names the exception that leaves decode, "none" for a return
codec_decode(data) ==
    LET z == zlib_decompress(data) IN
    IF z.ok
    THEN LET j == json_loads(z.data) IN
         IF j.err = "none" THEN [raised |-> "none", doc |-> j.val]
         ELSE [raised |-> j.err, doc |-> JNull]
    ELSE LET j == json_loads(data) IN
         IF j.err = "none" THEN [raised |-> "none", doc |-> j.val]
         ELSE [raised |-> "none", doc |-> RawSentinel(data)]

\* documents and byte strings of the calls
Scalars == {JInt("0"), JInt("1"), JStr("s")}
Pair(key, val) == [key |-> key, val |-> val]
InnerDocs == {JObj(<<>>)} \cup {JObj(<<Pair("a", v)>>) : v \in Scalars}
Values == Scalars \cup InnerDocs
Docs ==
    {JObj(<<>>)} \cup {JObj(<<Pair(k, v)>>) : k \in {"a", "b"}, v \in Values}
    \cup {JObj(<<Pair(k, v), Pair(IF k = "a" THEN "b" ELSE "a", w)>>) :
             k \in {"a", "b"}, v \in Values, w \in Values}

\* text that is no JSON document, and bytes that are no text
NotJson == {<<LBRACE>>, <<LBRACE, Tok("str", "a"), RBRACE>>, <<Tok("punct", "x")>>, <<>>,
            <<LBRACE, RBRACE, RBRACE>>, <<BAD_UTF8>>, <<LBRACE, BAD_UTF8, RBRACE>>}
\* compressed streams cut short or without their header
Damaged == {Tail(codec_encode(d)) : d \in InnerDocs}
           \cup {SubSeq(codec_encode(d), 1, Len(codec_encode(d)) - 1) : d \in InnerDocs}
ByteStrings ==
    {json_dumps(d) : d \in Docs} \cup {codec_encode(d) : d \in InnerDocs}
    \cup NotJson \cup {zlib_compress(t) : t \in NotJson} \cup Damaged

\* decode(encode(d))
EncodeDecodeCall(d) ==
    /\ ret.fn = "none"
    /\ ret' = [fn |-> "decode_encode", args |-> d, value |-> codec_decode(codec_encode(d))]
    /\ UNCHANGED <<clientvars, discvars, wcvars>>

\* decode(data)
DecodeCall(data) ==
    /\ ret.fn = "none"
    /\ ret' = [fn |-> "decode", args |-> data, value |-> codec_decode(data)]
    /\ UNCHANGED <<clientvars, discvars, wcvars>>

\* ------------------------------------------------------------------ const.py, Topic on text
\* A string is a sequence of pieces: "/" or a piece of text without "/".
\* Pieces next to each other read as one text, so <<"SN", "SN">> is not "SN".
RECURSIVE Split(_)
\* str.split("/")
Split(s) ==
    LET seps == {k \in 1..Len(s) : s[k] = "/"} IN
    IF seps = {} THEN <<s>>
    ELSE <<SubSeq(s, 1, FirstIndex(seps) - 1)>> \o Split(SubSeq(s, FirstIndex(seps) + 1, Len(s)))

\* Topic(sn).app(cmd): "snowbot/{sn}/app/{cmd}"
Topic_app(sn, cmd) == <<"snowbot", "/">> \o sn \o <<"/", "app", "/">> \o cmd
\* Topic(sn).device(feedback): "snowbot/{sn}/device/{feedback}"
Topic_device(sn, feedback) == <<"snowbot", "/">> \o sn \o <<"/", "device", "/">> \o feedback

Topic_parse_swapped(topic) ==
    LET parts == Split(topic) IN
    IF Len(parts) >= 4 /\ parts[1] = <<"snowbot">> THEN <<parts[4], parts[2]>> ELSE <<<<>>, <<>>>>

\* Topic.parse(topic)
Topic_parse(topic) ==
    LET parts == Split(topic) IN
    IF Len(parts) >= 4 /\ parts[1] = <<"snowbot">> THEN <<parts[2], parts[4]>> ELSE <<<<>>, <<>>>>

Strings(pieces, n) == UNION {[1..k -> pieces] : k \in 0..n}
\* serials and leaves a caller can pass: non-empty
TopicNames == Strings({"/", "SN", "x"}, MaxNameLen) \ {<<>>}
\* strings a caller can pass to Topic.parse
TopicStrings == Strings({"/", "snowbot", "SN"}, MaxTopicLen)

\* Topic.parse(Topic(sn).app(leaf)) or Topic.parse(Topic(sn).device(leaf))
ParseBuildCall(sn, direction, leaf) ==
    /\ ret.fn = "none"
    /\ ret' = [fn |-> "parse_build", args |-> <<sn, <<direction>>, leaf>>,
               value |-> Topic_parse(IF direction = "app" THEN Topic_app(sn, leaf)
                                                          ELSE Topic_device(sn, leaf))]
    /\ UNCHANGED <<clientvars, discvars, wcvars>>

\* Topic.parse(topic)
ParseCall(topic) ==
    /\ ret.fn = "none"
    /\ ret' = [fn |-> "parse", args |-> topic, value |-> Topic_parse(topic)]
    /\ UNCHANGED <<clientvars, discvars, wcvars>>

\* ------------------------------------------------------------------ local.py: watch_telemetry
\* A payload dict as far as watch_telemetry reads it: the values of the four
\* plan keys (Absent: the key is missing) and whether it has any other key
Payload(planId, state, areaCovered, duration, other) ==
    [planId |-> planId, state |-> state, areaCovered |-> areaCovered,
     duration |-> duration, other |-> other]

\* {}
EmptyPayload == Payload(Absent, Absent, Absent, Absent, FALSE)

\* bool(d) of a dict: it has a key
Truthy(d) == d # EmptyPayload

\* TelemetryEnvelope.is_telemetry
is_telemetry(envelope) == envelope.kind = TOPIC_LEAF_DEVICE_MSG

\* TelemetryEnvelope.to_telemetry: YarboTelemetry.from_dict reads no plan key
\* of a DeviceMSG payload, the plan fields keep their default None
to_telemetry(envelope) ==
    [raw |-> envelope.payload, plan_id |-> Absent, plan_state |-> Absent,
     area_covered |-> Absent, duration |-> Absent]

watch_telemetry_first_plan(_plan_payload, envelope) ==
    IF envelope.kind = TOPIC_LEAF_PLAN_FEEDBACK
    THEN [plan |-> IF Truthy(_plan_payload) THEN _plan_payload ELSE envelope.payload,
          yields |-> <<>>]
    ELSE IF is_telemetry(envelope)
         THEN [plan |-> _plan_payload,
               yields |-> <<IF Truthy(_plan_payload)
                            THEN [to_telemetry(envelope) EXCEPT
                                     !.plan_id = _plan_payload.planId,
                                     !.plan_state = _plan_payload.state,
                                     !.area_covered = _plan_payload.areaCovered,
                                     !.duration = _plan_payload.duration]
                            ELSE to_telemetry(envelope)>>]
         ELSE [plan |-> _plan_payload, yields |-> <<>>]

\* watch_telemetry: one pass of the body of `async for envelope in
\* telemetry_stream()`: the new cache and what the pass yields
watch_telemetry(_plan_payload, envelope) ==
    IF envelope.kind = TOPIC_LEAF_PLAN_FEEDBACK
    THEN [plan |-> envelope.payload, yields |-> <<>>]
    ELSE IF is_telemetry(envelope)
         THEN [plan |-> _plan_payload,
               yields |-> <<IF Truthy(_plan_payload)
                            THEN [to_telemetry(envelope) EXCEPT
                                     !.plan_id = _plan_payload.planId,
                                     !.plan_state = _plan_payload.state,
                                     !.area_covered = _plan_payload.areaCovered,
                                     !.duration = _plan_payload.duration]
                            ELSE to_telemetry(envelope)>>]
         ELSE [plan |-> _plan_payload, yields |-> <<>>]

\* Payloads: empty, a full plan report, a report with planId only, and a dict
\* with other keys that also has a planId
WatchPayloads == {EmptyPayload,
                  Payload("p-123", "running", "55.0", "120.0", FALSE),
                  Payload("p-456", Absent, Absent, Absent, FALSE),
                  Payload("p-789", Absent, Absent, Absent, TRUE)}

WatchLeaves == {TOPIC_LEAF_DEVICE_MSG, TOPIC_LEAF_PLAN_FEEDBACK, TOPIC_LEAF_HEART_BEAT}

\* What telemetry_stream can yield next
WatchEnvelopes ==
    {TelemetryEnvelope(Envelope(TOPIC_DEVICE_TMPL(SN, leaf), payload)) :
        leaf \in WatchLeaves, payload \in WatchPayloads}

\* The generator's state starts with _plan_payload = {}; ret holds the
\* envelopes the stream has yielded so far, the cache and the records yielded
WatchTelemetryStep(envelope) ==
    /\ ret.fn \in {"none", "watch_telemetry"}
    /\ LET seen == IF ret.fn = "none" THEN <<>> ELSE ret.args
           st == IF ret.fn = "none" THEN [plan |-> EmptyPayload, out |-> <<>>] ELSE ret.value
           r == watch_telemetry(st.plan, envelope)
       IN /\ Len(seen) < MaxStream
          /\ ret' = [fn |-> "watch_telemetry", args |-> Append(seen, envelope),
                     value |-> [plan |-> r.plan, out |-> st.out \o r.yields]]
    /\ UNCHANGED <<clientvars, discvars, wcvars>>

\* ------------------------------------------------------------------ specification
Handoff ==
    \/ RunSet
    \/ RunClear
    \/ RunReconnectCallback
    \/ RunEnqueue

\* The caller of the session API makes one call after another.
Caller == {1}

\* The broker connection: established, lost, re-established by paho
Link ==
    \/ ClientConnect
    \/ ConnectReturn
    \/ OnConnect(0)
    \/ OnDisconnect

\* Acknowledgements of the handshake: accepted, rejected, and one without a
\* "state" key
HandshakeMsgs == {AckMsg("get_controller", "0"), AckMsg("get_controller", "1"),
                  AckMsg("get_controller", Absent)}

\* The controller handshake and the action commands over a connection that
\* may drop and come back
Next ==
    \/ Link
    \/ Handoff
    \/ \E m \in HandshakeMsgs : OnMessage(m)
    \/ \E t \in Caller : CallGetController(t)
    \/ \E t \in Caller : CallAction(t, "light_ctrl")
    \/ \E t \in Caller, late \in BOOLEAN : GetControllerWait(t, late)
    \/ \E t \in Caller : SettleDone(t)

Spec == Init /\ [][Next]_vars

\* The correlated commands (the handshake, _publish_and_wait, the list
\* commands) and the action commands over a connection that stays up
NextCommands ==
    \/ ClientConnect
    \/ ConnectReturn
    \/ OnConnect(0)
    \/ RunSet
    \/ RunEnqueue
    \/ \E m \in SessionMsgs : OnMessage(m)
    \/ \E t \in Caller : CallGetController(t)
    \/ \E t \in Caller : CallAction(t, "light_ctrl")
    \/ \E t \in Caller : CallPublishAndWait(t, "start_plan")
    \/ \E t \in Caller : CallList(t, "read_all_plan")
    \/ \E t \in Caller, late \in BOOLEAN : GetControllerWait(t, late)
    \/ \E t \in Caller : SettleDone(t)
    \/ \E t \in Caller, late \in BOOLEAN : AckWait(t, late)
    \/ \E t \in Caller : Cancel(t)

SpecCommands == Init /\ [][NextCommands]_vars

\* The connection lifecycle alone: connect(), disconnect(), the broker's
\* accepts, refusals and drops, and registrations of reconnect callbacks
NextNet ==
    \/ ClientConnect
    \/ ClientConnectRefused
    \/ ConnectReturn
    \/ ConnectTimeout
    \/ Disconnect
    \/ LoopStopped
    \/ ResumeConnect
    \/ ResumeDisconnect
    \/ \E rc \in {0, 5} : OnConnect(rc)
    \/ OnDisconnect
    \/ RunSet
    \/ RunClear
    \/ RunReconnectCallback
    \/ \E callback \in {"client", "user"} : AddReconnectCallback(callback)

SpecNet == Init /\ [][NextNet]_vars

\* The transport used directly by one caller: a mailbox created, waited on or
\* released while messages arrive
WaitMsgs == {AckMsg("get_controller", "0"), HeartBeatMsg, GarbageMsg, ZlibNotJsonMsg}
Names == {Absent, "get_controller"}
Timeouts == {"positive", "nonpositive"}

NextTransport ==
    \/ ClientConnect
    \/ ConnectReturn
    \/ OnConnect(0)
    \/ RunSet
    \/ RunEnqueue
    \/ \E m \in WaitMsgs : OnMessage(m)
    \/ \E t \in Caller, name \in Names, tmo \in Timeouts :
          RawCreate(t, TOPIC_LEAF_DATA_FEEDBACK, name, tmo)
    \/ \E t \in Caller : RawRelease(t)
    \/ \E t \in Caller : RawWait(t)
    \/ \E t \in Caller, name \in Names, tmo \in Timeouts :
          RawWaitNew(t, TOPIC_LEAF_DATA_FEEDBACK, name, tmo)
    \/ \E t \in Caller, late \in BOOLEAN : RawStep(t, late)
    \/ \E t \in Caller : Cancel(t)

SpecTransport == Init /\ [][NextTransport]_vars

\* Two tasks that wait concurrently, each on its own mailbox, for any
\* data_feedback message
NextWaiters ==
    \/ ClientConnect
    \/ ConnectReturn
    \/ OnConnect(0)
    \/ RunSet
    \/ RunEnqueue
    \/ OnMessage(AckMsg("get_controller", "0"))
    \/ \E t \in Tasks : RawCreate(t, TOPIC_LEAF_DATA_FEEDBACK, Absent, "positive")
    \/ \E t \in Tasks : RawRelease(t)
    \/ \E t \in Tasks : RawWait(t)
    \/ \E t \in Tasks : RawWaitNew(t, TOPIC_LEAF_DATA_FEEDBACK, Absent, "positive")
    \/ \E t \in Tasks, late \in BOOLEAN : RawStep(t, late)
    \/ \E t \in Tasks : Cancel(t)

SpecWaiters == Init /\ [][NextWaiters]_vars

\* The fan-out of inbound messages of every kind to the mailboxes that two
\* tasks hold registered
FanoutMsgs == {AckMsg("get_controller", "0"), TelemetryMsg, HeartBeatMsg, GarbageMsg,
               ZlibNotJsonMsg}

NextFanout ==
    \/ ClientConnect
    \/ ConnectReturn
    \/ OnConnect(0)
    \/ RunSet
    \/ RunEnqueue
    \/ \E m \in FanoutMsgs : OnMessage(m)
    \/ \E t \in Tasks : RawCreate(t, TOPIC_LEAF_DATA_FEEDBACK, Absent, "positive")
    \/ \E t \in Tasks : RawRelease(t)

SpecFanout == Init /\ [][NextFanout]_vars

\* One consumer of telemetry_stream over a connection that may drop and
\* come back
StreamMsgs == {TelemetryMsg, HeartBeatMsg}

NextStream ==
    \/ Link
    \/ Handoff
    \/ \E m \in StreamMsgs : OnMessage(m)
    \/ \E t \in Caller : StreamStart(t)
    \/ \E t \in Caller : StreamStep(t)
    \/ \E t \in Caller : Cancel(t)

\* The consumer keeps iterating: a stream that can step eventually steps.
SpecStream ==
    Init /\ [][NextStream]_vars /\ WF_vars(\E t \in Caller : StreamStep(t))

\* discover(): the probes of one scan in every interleaving
NextDiscover ==
    \/ \E n \in 0..MaxCandidates : Discover(n)
    \/ \E i \in 1..MaxCandidates : ProbeStart(i)
    \/ \E i \in 1..MaxCandidates, tcp \in {"ok", "fail", "exc"} : ProbeTcp(i, tcp)
    \/ \E i \in 1..MaxCandidates, heard \in {"working_state", "timeout", "error"} :
           ProbeVerify(i, heard)
    \/ \E i \in 1..MaxCandidates, mac \in ScanMacs, raises \in BOOLEAN :
           ProbeClassify(i, mac, Absent, raises)
    \/ DiscoverReturn

SpecDiscover == Init /\ [][NextDiscover]_vars

\* connection_order on every list a caller can build
NextOrder ==
    \/ \E es \in EndpointLists : ConnectionOrderCall(es)

SpecOrder == Init /\ [][NextOrder]_vars

\* _with_client: discovery, then the failover loop
NextFailover ==
    \/ \E n \in 0..MaxCandidates : Discover(n)
    \/ \E i \in 1..MaxCandidates : ProbeStart(i)
    \/ \E i \in 1..MaxCandidates, tcp \in {"ok", "fail", "exc"} : ProbeTcp(i, tcp)
    \/ \E i \in 1..MaxCandidates, heard \in {"working_state", "timeout", "error"} :
           ProbeVerify(i, heard)
    \/ \E i \in 1..MaxCandidates, mac \in ScanMacs, raises \in BOOLEAN :
           ProbeClassify(i, mac, Absent, raises)
    \/ DiscoverReturn
    \/ WithClientStart
    \/ \E connect_outcome \in ConnectOutcomes : WithClientTry(connect_outcome)

SpecFailover == Init /\ [][NextFailover]_vars

\* the probe of one candidate with every MAC address and hostname
NextClassify ==
    \/ Discover(1)
    \/ ProbeStart(1)
    \/ ProbeTcp(1, "ok")
    \/ ProbeVerify(1, "working_state")
    \/ \E mac \in Macs, hostname \in Hostnames : ProbeClassify(1, mac, hostname, FALSE)
    \/ DiscoverReturn

SpecClassify == Init /\ [][NextClassify]_vars

\* encode and decode on every document and byte string of the bounded sets
NextCodec ==
    \/ \E d \in Docs : EncodeDecodeCall(d)
    \/ \E data \in ByteStrings : DecodeCall(data)

SpecCodec == Init /\ [][NextCodec]_vars

\* Topic.parse on built topics and on every string of the bounded set
NextTopic ==
    \/ \E sn \in TopicNames, direction \in {"app", "device"}, leaf \in TopicNames :
           ParseBuildCall(sn, direction, leaf)
    \/ \E topic \in TopicStrings : ParseCall(topic)

SpecTopic == Init /\ [][NextTopic]_vars

\* A burst of distinguishable messages into mailboxes of QueueMaxSize entries:
\* one caller creates, reads and releases its mailbox, a second mailbox stays
\* registered beside it
MailboxMsgs == {AckMsg("get_controller", "0"), TelemetryMsg}

NextMailbox ==
    \/ ClientConnect
    \/ ConnectReturn
    \/ OnConnect(0)
    \/ RunSet
    \/ RunEnqueue
    \/ \E m \in MailboxMsgs : OnMessageBurst(m)
    \/ \E t \in Tasks : RawCreate(t, TOPIC_LEAF_DATA_FEEDBACK, Absent, "positive")
    \/ \E t \in Caller : RawWait(t)
    \/ \E t \in Caller, late \in BOOLEAN : RawStep(t, late)
    \/ \E t \in Caller : RawRelease(t)

SpecMailbox == Init /\ [][NextMailbox]_vars

\* Two tasks that run commands of different names at the same time on a client
\* made with auto_controller=False, while the acknowledgements of both arrive
\* in any order and number
AckMsgs == {AckMsg("start_plan", "0"), AckMsg("stop_plan", "0")}
CmdOf(t) == IF t = 1 THEN "start_plan" ELSE "stop_plan"

NextAcks ==
    \/ ClientConnect
    \/ ConnectReturn
    \/ OnConnect(0)
    \/ RunSet
    \/ RunEnqueue
    \/ \E m \in AckMsgs : OnMessageBurst(m)
    \/ \E t \in Tasks : CallPublishAndWait(t, CmdOf(t))
    \/ \E t \in Tasks, late \in BOOLEAN : AckWait(t, late)

\* YarboLocalClient(..., auto_controller=False)
InitManual == Init /\ auto_controller = FALSE

SpecAcks == InitManual /\ [][NextAcks]_vars

\* watch_telemetry over every stream of up to MaxStream envelopes
NextWatch ==
    \/ \E envelope \in WatchEnvelopes : WatchTelemetryStep(envelope)

SpecWatch == Init /\ [][NextWatch]_vars

\* A scan of a candidate list with repeated addresses. Every probe_one task
\* keeps running: its connect, heartbeat check and lookups are bounded by
\* timeouts, and a task that waits for the semaphore gets it once it is free.
NextScan ==
    \/ \E candidates \in CandidateLists : DiscoverCandidates(candidates)
    \/ \E i \in 1..MaxCandidates : ProbeStart(i)
    \/ \E i \in 1..MaxCandidates, tcp \in {"ok", "fail", "exc"} : ProbeTcp(i, tcp)
    \/ \E i \in 1..MaxCandidates, heard \in {"working_state", "timeout", "error"} :
           ProbeVerify(i, heard)
    \/ \E i \in 1..MaxCandidates, mac \in ScanMacs, raises \in BOOLEAN :
           ProbeClassify(i, mac, Absent, raises)
    \/ DiscoverReturn

ProbeSteps(i) ==
    \/ ProbeStart(i)
    \/ \E tcp \in {"ok", "fail", "exc"} : ProbeTcp(i, tcp)
    \/ \E heard \in {"working_state", "timeout", "error"} : ProbeVerify(i, heard)
    \/ \E mac \in ScanMacs, raises \in BOOLEAN : ProbeClassify(i, mac, Absent, raises)

SpecScan ==
    /\ Init
    /\ [][NextScan]_vars
    /\ \A i \in 1..MaxCandidates : WF_vars(ProbeSteps(i))

\* Two tasks that run action commands at the same time on a client made with
\* auto_controller=True, while the robot acknowledges the handshake
NextEnsure ==
    \/ ClientConnect
    \/ ConnectReturn
    \/ OnConnect(0)
    \/ RunSet
    \/ RunEnqueue
    \/ OnMessageBurst(AckMsg("get_controller", "0"))
    \/ \E t \in Tasks : CallAction(t, "light_ctrl")
    \/ \E t \in Tasks, late \in BOOLEAN : GetControllerWait(t, late)
    \/ \E t \in Tasks : SettleDone(t)

\* YarboLocalClient(..., auto_controller=True), the default
InitAuto == Init /\ auto_controller = TRUE

SpecEnsure == InitAuto /\ [][NextEnsure]_vars

\* One caller that waits for the acknowledgement of get_controller, with a
\* positive or a non-positive timeout, while acknowledgements of another
\* command and acknowledgements of get_controller arrive without end
DeadlineMsgs == {AckMsg("start_plan", "0"), AckMsg("get_controller", "0")}

NextDeadline ==
    \/ ClientConnect
    \/ ConnectReturn
    \/ OnConnect(0)
    \/ RunSet
    \/ RunEnqueue
    \/ \E m \in DeadlineMsgs : OnMessageBurst(m)
    \/ \E t \in Caller, tmo \in Timeouts :
          RawWaitNew(t, TOPIC_LEAF_DATA_FEEDBACK, "get_controller", tmo)
    \/ \E t \in Caller, late \in BOOLEAN : RawStep(t, late)

\* The check of the loop that finds the deadline passed
DeadlineCheck(t) == RawStep(t, TRUE)

\* The event loop resumes the waiting coroutine whenever its wait_for has an
\* envelope or has timed out, and loop.time() is monotonic: the deadline, a
\* constant of the call, is behind it at every check from some check on.
SpecDeadline ==
    /\ Init
    /\ [][NextDeadline]_vars
    /\ \A t \in Caller : WF_vars(\E late \in BOOLEAN : RawStep(t, late))
    /\ \A t \in Caller : WF_vars(DeadlineCheck(t))

\* ------------------------------------------------------------------ properties
\* The step of task t that ends wait_for_message inside get_controller, with
\* the envelope at the head of the task's mailbox as the message returned
HandshakeReturns(t) ==
    /\ pc[t] = "gc_wait"
    /\ pc'[t] \in {"idle", "settle"}

HandshakeSuccessEnvelope(e) ==
    /\ TopicLeaf(e.topic) = TOPIC_LEAF_DATA_FEEDBACK
    /\ e.payload.ptopic = "get_controller"
    /\ from_dict(e.payload).state = 0

\* C1: controller_acquired changes from false to true only in the last step
\* of a get_controller call, and only when that call received a data_feedback
\* envelope that echoes "get_controller" and whose result has state code 0;
\* no timeout, rejection, reconnect callback, connect, disconnect or other
\* command sets it.
C1_AcquiredOnlyByHandshakeSuccess ==
    [][(~controller_acquired /\ controller_acquired') =>
         \E t \in Tasks :
            /\ HandshakeReturns(t)
            /\ mbox[tq[t]] # <<>>
            /\ HandshakeSuccessEnvelope(Head(mbox[tq[t]]))
            /\ ev'.type = "gc_done" /\ ev'.task = t /\ ev'.out = "ok"
            /\ ev'.env = Head(mbox[tq[t]])]_vars

\* C1 witness: a handshake has just succeeded on a client that had not
\* acquired the role
C1_Witness ==
    /\ ev.type = "gc_done"
    /\ ev.out = "ok"
    /\ ~ev.acq0
    /\ HandshakeSuccessEnvelope(ev.env)
    /\ controller_acquired

\* The last step ended a get_controller call that started while
\* controller_acquired was false
HandshakeEnded ==
    /\ ev.cmd = "get_controller"
    /\ ev.type \in {"gc_done", "publish_raised"}
    /\ ~ev.acq0

\* The three outcomes the handshake has once it waits for the acknowledgement
HandshakeAccepted ==
    /\ ev.type = "gc_done" /\ ev.out = "ok"
    /\ HandshakeSuccessEnvelope(ev.env)
    /\ controller_acquired

HandshakeRejected ==
    /\ ev.type = "gc_done" /\ ev.out = "not_controller"
    /\ TopicLeaf(ev.env.topic) = TOPIC_LEAF_DATA_FEEDBACK
    /\ ev.env.payload.ptopic = "get_controller"
    /\ from_dict(ev.env.payload).state # 0
    /\ ~controller_acquired

HandshakeTimedOut ==
    /\ ev.type = "gc_done" /\ ev.out = "timeout_err"
    /\ ev.env = NoEnv
    /\ ~controller_acquired

\* The outcome before any wait: publish raised YarboConnectionError
HandshakeNotSent ==
    /\ ev.type = "publish_raised" /\ ev.out = "conn_err"
    /\ ~connected
    /\ ~controller_acquired

\* C2 as stated: a get_controller call made while controller_acquired is
\* false has exactly three outcomes: accepted (success, flag true), rejected
\* (YarboNotControllerError, flag false), timed out (YarboTimeoutError, flag
\* false).
C2_ExactlyThreeOutcomes ==
    HandshakeEnded => (HandshakeAccepted \/ HandshakeRejected \/ HandshakeTimedOut)

\* C2 amended: a get_controller call made while controller_acquired is false
\* has exactly four outcomes: the three above, and YarboConnectionError
\* raised by publish when the transport is not connected, with nothing
\* published and the flag still false.
C2_FourOutcomes ==
    HandshakeEnded =>
        (HandshakeAccepted \/ HandshakeRejected \/ HandshakeTimedOut \/ HandshakeNotSent)

\* C2 witness: the handshake was rejected by the robot
C2_Witness ==
    HandshakeEnded /\ HandshakeRejected

\* The step runs the client's reconnect callback
ReconnectNotified ==
    ev'.type = "run_reconnect" /\ ev'.cmd = "client"

\* The step starts an action command of task t and publishes: the message it
\* publishes is the first publish of that command
ActionStarts(t) ==
    /\ pc[t] = "idle"
    /\ ev'.task = t
    /\ ev'.api = "action"
    /\ ev'.type = "published"

\* C3: when the reconnect callback runs on a client whose controller_acquired
\* is true, controller_acquired is false afterwards, and with auto_controller
\* enabled the next action command publishes a new get_controller handshake
\* before its own publish.
C3_ReconnectForcesNewHandshake ==
    [][/\ (ReconnectNotified /\ controller_acquired) => ~controller_acquired'
       /\ \A t \in Tasks :
             (renotified /\ auto_controller /\ ActionStarts(t)) =>
                 ev'.cmd = "get_controller"]_vars

\* The last step was a successful _on_connect; the reconnect callbacks it
\* scheduled are the last ev.n entries of the hand-off queue
ConnectSucceeded ==
    ev.type = "on_connect" /\ ev.cmd = "rc0"

TimesScheduled(callback) ==
    Cardinality({i \in (Len(loopq) - ev.n + 1)..Len(loopq) : loopq[i].cb = callback})

\* C4: every registered reconnect callback is scheduled exactly once by a
\* successful connect that re-establishes a connection that had been
\* established before, and not at all by the initial successful connect,
\* however often it was registered.
C4_CallbacksOncePerReconnect ==
    ConnectSucceeded =>
        \A callback \in Range(reconnect_callbacks) :
            TimesScheduled(callback) = IF ev.out = "again" THEN 1 ELSE 0

\* An envelope is what a direct wait_for_message call c waits for
Matches(envelope, c) ==
    /\ TopicLeaf(envelope.topic) = c.leaf
    /\ c.name # Absent => envelope.payload.ptopic = c.name

\* The step is an iteration of the direct wait_for_message call of task t
WaitIterates(t) ==
    /\ pc[t] \in {"raw_wait0", "raw_wait"}
    /\ ev'.task = t
    /\ ev'.type \in {"skip", "wait_done"}

\* C5 as stated: when a matching envelope has been delivered to a mailbox
\* obtained with create_wait_queue before wait_for_message starts waiting on
\* it, wait_for_message called with that mailbox returns that envelope
\* instead of timing out.
C5_EarlyEnvelopeReturned ==
    [][\A t \in Tasks :
         (/\ WaitIterates(t)
          /\ pc[t] = "raw_wait0" /\ call[t].api = "raw"
          /\ mbox[tq[t]] # <<>>
          /\ Matches(Head(mbox[tq[t]]), call[t]))
         => (/\ ev'.type = "wait_done" /\ ev'.out = "value"
             /\ ev'.env = Head(mbox[tq[t]]))]_vars

\* C5 amended: an iteration of wait_for_message whose deadline has not
\* passed takes the oldest envelope of the mailbox, returns it when it
\* matches and discards it when it does not; so the first matching envelope
\* still in the mailbox is returned unless the deadline passes first, and
\* with a positive timeout a matching envelope at the head of the mailbox
\* when the wait starts is always returned.
C5_EarlyEnvelopeReturnedInTime ==
    [][\A t \in Tasks :
         WaitIterates(t) =>
            LET box == mbox[tq[t]]
            IN /\ ~ev'.late =>
                     /\ box # <<>>
                     /\ IF Matches(Head(box), call[t])
                        THEN /\ ev'.type = "wait_done" /\ ev'.out = "value"
                             /\ ev'.env = Head(box)
                        ELSE /\ ev'.type = "skip"
                             /\ mbox'[tq[t]] = Tail(box)
               /\ (/\ pc[t] = "raw_wait0" /\ call[t].tmo = "positive"
                   /\ box # <<>> /\ Matches(Head(box), call[t])) => ~ev'.late]_vars

\* C5 witness: a wait on a pre-registered mailbox returned, at its first
\* iteration, an envelope that was delivered before the wait started
C5_Witness ==
    /\ ev.type = "wait_done" /\ ev.api = "raw"
    /\ ev.first /\ ~ev.late
    /\ ev.out = "value"
    /\ TopicLeaf(ev.env.topic) = TOPIC_LEAF_DATA_FEEDBACK

\* The step ends the direct wait_for_message call of task t: it returned a
\* match, returned None, or was cancelled
WaitEnds(t) ==
    /\ pc[t] \in {"raw_wait0", "raw_wait"}
    /\ pc'[t] = "idle"

\* C6: when wait_for_message finishes in any way, the mailbox it used is no
\* longer registered, every other mailbox still is, and the number of
\* registered mailboxes is what it was before that mailbox was registered
\* (one less than during the wait).
C6_WaitDeregisters ==
    [][\A t \in Tasks :
         WaitEnds(t) =>
            /\ tq[t] \notin Range(message_queues')
            /\ Range(message_queues') = Range(message_queues) \ {tq[t]}
            /\ Len(message_queues') = Len(message_queues) - 1]_vars

\* C6 witness: a wait was cancelled while another task's mailbox was
\* registered, and only that other mailbox is registered now
C6_Witness ==
    /\ ev.type = "cancelled"
    /\ ev.api \in {"raw", "rawnew"}
    /\ \E u \in Tasks : u # ev.task /\ tq[u] # 0 /\ message_queues = <<tq[u]>>

\* The mailboxes held by the commands that are running
HeldQueues == {tq[t] : t \in Tasks} \ {0}

\* C7: a session command that correlates a response leaves the registered
\* mailboxes as it found them, however it ends (success, timeout, publish
\* raised): at any time the registered mailboxes are exactly those of the
\* commands still waiting, each once, so the list never grows.
C7_NoMailboxLeak ==
    /\ Range(message_queues) = HeldQueues
    /\ Len(message_queues) = Cardinality(HeldQueues)

\* C7 witness: a correlated command ended because publish raised, and no
\* mailbox is registered
C7_Witness ==
    /\ ev.type = "publish_raised"
    /\ ev.api \in {"get_controller", "paw", "list"}
    /\ pc[ev.task] = "idle"
    /\ message_queues = <<>>

\* The document decode is specified to return: the parsed JSON document, or
\* the {"_raw": hex} sentinel for bytes that hold no JSON document
Decoded(data) == IF data.json THEN data.doc ELSE RawDoc

\* C8: for every inbound message handled with an event loop attached, one
\* _enqueue_safe is scheduled for every mailbox registered when the callback
\* runs, in order, each with an envelope of the message's full topic and its
\* decoded payload, and nothing else is scheduled; also for a message whose
\* bytes cannot be decoded.
C8_EveryMailboxGetsEnvelope ==
    [][\A m \in FanoutMsgs :
         (OnMessage(m) /\ has_loop) =>
            loopq' = loopq \o [i \in 1..Len(message_queues) |->
                                 Cb("enqueue", message_queues[i],
                                    Envelope(m.topic, Decoded(m.data)))]]_vars

\* The step is one in which task t calls publish: the start of a command, or
\* the command's own publish after the settle delay
PublishCalled(t) ==
    /\ ev'.task = t
    /\ pc[t] \in {"idle", "settle"}

ActionPublishedOwn ==
    ev.type = "published" /\ ev.api = "action" /\ ev.cmd # "get_controller"

ActionPublishedHandshake ==
    ev.type = "published" /\ ev.api = "action" /\ ev.cmd = "get_controller"

\* C10: when an action command is issued with auto_controller enabled while
\* controller_acquired is false, a get_controller publish of that command
\* precedes the command's own publish in the publish log; when
\* controller_acquired is true at that time, or auto_controller is disabled,
\* the command publishes no get_controller.
C10_HandshakePrecedesCommand ==
    /\ ActionPublishedOwn =>
          /\ publog[Len(publog)].topic = TOPIC_APP_TMPL(SN, ev.cmd)
          /\ IF auto_controller /\ ~ev.acq0
             THEN /\ ev.hs \in 1..(Len(publog) - 1)
                  /\ publog[ev.hs].topic = TOPIC_APP_TMPL(SN, "get_controller")
             ELSE ev.hs = 0
    /\ ActionPublishedHandshake =>
          /\ auto_controller /\ ~ev.acq0
          /\ ev.hs = Len(publog)
          /\ publog[ev.hs].topic = TOPIC_APP_TMPL(SN, "get_controller")

\* C10 witness: an action command issued without the controller role has
\* published its own message after its handshake
C10_Witness ==
    /\ ActionPublishedOwn
    /\ auto_controller /\ ~ev.acq0
    /\ ev.hs > 0
    /\ publog[ev.hs].topic = TOPIC_APP_TMPL(SN, "get_controller")

\* C11: every iteration of a wait_for_message call looks at the oldest
\* envelope of its mailbox: if the deadline has passed the call returns None;
\* otherwise an envelope whose topic leaf is feedback_leaf and (when
\* command_name is given) whose payload "topic" is command_name is returned
\* and ends the call, so nothing that arrives later is returned to it, and any
\* other envelope is consumed and the call goes on.  A call returns an
\* envelope only in this way, and at most once.
C11_FirstMatchWins ==
    [][\A t \in Tasks :
         WaitIterates(t) =>
            LET box == mbox[tq[t]]
            IN IF ev'.late
               THEN /\ ev'.type = "wait_done" /\ ev'.out = "nil" /\ ev'.env = NoEnv
                    /\ pc'[t] = "idle"
               ELSE /\ box # <<>>
                    /\ IF Matches(Head(box), call[t])
                       THEN /\ ev'.type = "wait_done" /\ ev'.out = "value"
                            /\ ev'.env = Head(box)
                            /\ pc'[t] = "idle"
                       ELSE /\ ev'.type = "skip"
                            /\ mbox'[tq[t]] = Tail(box)
                            /\ pc'[t] = "raw_wait" /\ call'[t] = call[t]]_vars

\* C11 witness: a call that filters by command name has skipped at least one
\* envelope and then returned the acknowledgement of its command
C11_Witness ==
    /\ ev.type = "wait_done" /\ ev.out = "value"
    /\ ~ev.first
    /\ TopicLeaf(ev.env.topic) = TOPIC_LEAF_DATA_FEEDBACK
    /\ ev.env.payload.ptopic = "get_controller"

\* A step of task t inside a _publish_and_wait-based command, the step that
\* ends such a call, and the publish of the command itself: the publish log
\* grows by exactly one message, on the command's topic
PawStep(t) == ev'.task = t /\ ev'.api = "paw"

PawEnds(t) == PawStep(t) /\ pc'[t] = "idle"

PawPublishesOwn(t) ==
    /\ ev'.cmd # "get_controller"
    /\ publog' = Append(publog, [topic |-> TOPIC_APP_TMPL(SN, ev'.cmd),
                                 data |-> encode(CmdPayload(ev'.cmd))])

\* What holds of every step of a _publish_and_wait-based command: the command
\* is published by the step that starts the wait for its acknowledgement and
\* by no other step, once the wait has started nothing more is published,
\* and a wait that ends without an acknowledgement raises YarboTimeoutError
PawNeverRepublishes(t) ==
    /\ (pc[t] # "ack_wait" /\ pc'[t] = "ack_wait") => PawPublishesOwn(t)
    /\ (pc[t] = "ack_wait" \/ pc'[t] # "ack_wait")
          => \/ publog' = publog
             \/ /\ pc'[t] = "gc_wait"
                /\ publog' = Append(publog, [topic |-> TOPIC_APP_TMPL(SN, "get_controller"),
                                             data |-> encode(CmdPayload("get_controller"))])
    /\ (pc[t] = "ack_wait" /\ ev'.type = "ack_done" /\ ev'.env = NoEnv)
          => ev'.out = "timeout_err"

\* C12 as stated: every _publish_and_wait-based command publishes its command
\* exactly once per call (so each call ends only after its one publish),
\* raises YarboTimeoutError when no acknowledgement arrives in time, and
\* never publishes the command again.
C12_PublishesExactlyOnce ==
    [][\A t \in Tasks :
         PawStep(t) =>
            /\ PawNeverRepublishes(t)
            /\ PawEnds(t) => pc[t] = "ack_wait"]_vars

\* C12, amended: a call publishes its command at most once, and exactly once
\* when it gets as far as its own publish on a connected transport; a call
\* that ends before that has published nothing of its own and ends with the
\* error of the automatic handshake or of publish (or is cancelled).
C12_PublishesAtMostOnce ==
    [][\A t \in Tasks :
         PawStep(t) =>
            /\ PawNeverRepublishes(t)
            /\ (PawEnds(t) /\ pc[t] # "ack_wait")
                  => /\ publog' = publog
                     /\ ev'.out \in {"conn_err", "not_controller", "timeout_err", "cancelled"}]_vars

\* C12 witness: a command waited for its acknowledgement, none arrived and
\* YarboTimeoutError was raised; the command is in the publish log once
C12_Witness ==
    /\ ev.type = "ack_done" /\ ev.api = "paw" /\ ev.out = "timeout_err"
    /\ Cardinality({i \in 1..Len(publog) :
                       publog[i].topic = TOPIC_APP_TMPL(SN, ev.cmd)}) = 1

\* C13: list_schedules, list_plans, get_global_params and get_map either
\* return a result derived from an envelope received from the device or raise
\* an error: a call that ends with a value has an envelope behind it, and a
\* timeout is not reported as a value.
C13_TimeoutIsNeverAValue ==
    (ev.type = "ack_done" /\ ev.api = "list") =>
        \/ ev.env # NoEnv /\ ev.out = "value"
        \/ ev.out \in {"timeout_err", "conn_err"}

\* The topics of the fixed feedback-leaf set
FeedbackTopics ==
    {TOPIC_DEVICE_TMPL(SN, ALL_FEEDBACK_LEAVES[i]) : i \in 1..Len(ALL_FEEDBACK_LEAVES)}

\* C14: every _on_connect with return code 0, the initial one and every later
\* one, subscribes to snowbot/SN/device/leaf for every leaf of the fixed set,
\* so whenever the broker session is up the complete set is subscribed.
C14_EveryConnectSubscribesAll ==
    [][/\ (ev'.type = "on_connect" /\ ev'.cmd = "rc0") => FeedbackTopics \subseteq subscriptions'
       /\ link' = "up" => FeedbackTopics \subseteq subscriptions']_vars

\* C14 witness: the connection was lost and re-established, and the complete
\* set is subscribed again
C14_Witness ==
    /\ ev.type = "on_connect" /\ ev.cmd = "rc0" /\ ev.out = "again"
    /\ was_connected
    /\ link = "up"
    /\ subscriptions = FeedbackTopics

\* C15: connect returns normally only after an _on_connect with return code 0
\* has been handed to the loop and processed; when connect raises
\* YarboTimeoutError instead, the network loop has been stopped and
\* is_connected is false.
C15_ConnectReturnsOrTimesOutClean ==
    /\ ev.type = "connect_ok" => (connected /\ ever_up)
    /\ ev.type = "connect_timeout" => (link = "stopped" /\ ~connected)

\* C16: from the return of disconnect() until a later connect() succeeds,
\* is_connected is false, whatever the network thread had handed to the loop
\* before it stopped, and publish raises YarboConnectionError.  (While a later
\* connect() is waiting, is_connected becomes true as that call succeeds.)
C16_DisconnectedUntilConnect ==
    (closed /\ conn_pc # "connecting") =>
        /\ ~connected
        /\ publish(connected, publog, "light_ctrl", CmdPayload("light_ctrl")).raised

\* The stream of task t is running
Streaming(t) == pc[t] \in {"stream_check", "stream_get"}

\* C17: while it runs, every envelope the stream yields is the oldest one of
\* its mailbox, taken out of it, with kind equal to the leaf of its topic;
\* the stream ends by itself only at a connectivity check that finds the
\* transport not connected, and when it ends its mailbox is no longer
\* registered; and once the transport is disconnected and stays so, a running
\* stream eventually ends.
C17_StreamYieldsThenEnds ==
    /\ [][\A t \in Tasks :
            (Streaming(t) /\ ev'.task = t) =>
               /\ ev'.type = "yield" =>
                     /\ mbox[tq[t]] # <<>>
                     /\ ev'.env = Head(mbox[tq[t]])
                     /\ ev'.cmd = TopicLeaf(ev'.env.topic)
                     /\ mbox'[tq[t]] = Tail(mbox[tq[t]])
               /\ ev'.type = "stream_end" => ~connected
               /\ ~Streaming(t)' =>
                     /\ tq[t] \notin Range(message_queues')
                     /\ Len(message_queues') = Len(message_queues) - 1]_vars
    /\ \A t \in Tasks : [](Streaming(t) /\ [](~connected) => <>(~Streaming(t)))

\* C17 witness: a stream that ran on a connected transport has ended after
\* the connection was lost, and no mailbox is registered any more
C17_Witness ==
    /\ ev.type = "stream_end" /\ ev.task \in Tasks
    /\ was_connected /\ ~connected
    /\ nmsgs > 0
    /\ message_queues = <<>>

\* the endpoints of the returned list that carry recommended=true
Recommended == {k \in 1..Len(endpoints) : endpoints[k].recommended}

\* C18: for every outcome of the probes, the list discover returns has exactly
\* one endpoint with recommended=true when it is non-empty and none when it is
\* empty
C18_ExactlyOneRecommended ==
    disc_pc = "returned" =>
        IF Len(endpoints) > 0 THEN Cardinality(Recommended) = 1 ELSE Recommended = {}

\* a scan has returned two endpoints of the same path, one of them recommended
C18_Witness ==
    /\ disc_pc = "returned"
    /\ Len(endpoints) = 2
    /\ endpoints[1].path = endpoints[2].path
    /\ Cardinality(Recommended) = 1

\* C19: when discover confirms at least one 'dc' and at least one 'rover'
\* endpoint, the recommended endpoint is a 'dc' and connection_order places it
\* first; when exactly one endpoint is confirmed it is the recommended one,
\* whatever its path
C19_DcPreferredAndFirst ==
    disc_pc = "returned" =>
        /\ (has_dc(endpoints) /\ has_rover(endpoints)) =>
               /\ \A k \in Recommended : endpoints[k].path = "dc"
               /\ Recommended # {}
               /\ connection_order(endpoints)[1].recommended
               /\ connection_order(endpoints)[1].path = "dc"
        /\ Len(endpoints) = 1 => endpoints[1].recommended

\* a scan has returned a rover ahead of a dc, and connection_order moved the dc up
C19_Witness ==
    /\ disc_pc = "returned"
    /\ Len(endpoints) >= 2
    /\ endpoints[1].path = "rover"
    /\ has_dc(endpoints)
    /\ connection_order(endpoints)[1].path = "dc"
    /\ connection_order(endpoints) # endpoints

\* the candidates whose probe returned an endpoint
Confirmed == {i \in Candidates : probes[i].result \in {"dc", "rover"}}

\* the confirmed candidate whose probe completed before every other confirmed one
FirstCompleted ==
    LET k == CHOOSE k \in 1..Len(completed) :
                 /\ completed[k] \in Confirmed
                 /\ \A j \in 1..(k - 1) : completed[j] \notin Confirmed
    IN completed[k]

Uniform == Cardinality(Confirmed) >= 2 /\ ~(has_dc(endpoints) /\ has_rover(endpoints))

\* C20 as stated: with two or more confirmed endpoints that are all rover or
\* all dc, the recommended endpoint is the one whose probe completed first
C20_FirstCompletedRecommended ==
    (disc_pc = "returned" /\ Uniform) =>
        \A k \in Recommended : endpoints[k].ip = FirstCompleted

\* C20: with two or more confirmed endpoints that are all rover or all dc, the
\* recommended endpoint is the confirmed one that comes first in the candidate
\* list, in whatever order the probes completed
C20_FirstCandidateRecommended ==
    (disc_pc = "returned" /\ Uniform) =>
        /\ Recommended # {}
        /\ \A k \in Recommended : \A i \in Confirmed : endpoints[k].ip <= i

\* two rovers confirmed, the later candidate's probe completed first, and the
\* earlier candidate is the recommended one
C20_Witness ==
    /\ disc_pc = "returned"
    /\ Uniform
    /\ \E k \in Recommended : endpoints[k].ip # FirstCompleted

Count(s, e) == Cardinality({i \in 1..Len(s) : s[i] = e})
IsPermutation(out, es) ==
    /\ Len(out) = Len(es)
    /\ \A i \in 1..Len(es) : Count(out, es[i]) = Count(es, es[i])
WithoutIndex(s, r) == [k \in 1..(Len(s) - 1) |-> IF k < r THEN s[k] ELSE s[k + 1]]

\* what C21 says of one call: a permutation of the input, the first recommended
\* endpoint first, the others in their input order; unchanged without one
OrderedAsClaimed(es, out) ==
    LET r == FirstIndex(IsRecommended(es)) IN
    /\ IsPermutation(out, es)
    /\ r # 0 => (out[1] = es[r] /\ Tail(out) = WithoutIndex(es, r))
    /\ r = 0 => out = es
    /\ es = <<>> => out = <<>>

\* C21 as stated: for every endpoint list, connection_order returns a
\* permutation of the input with the first recommended endpoint first and the
\* others in their input order; unchanged when none is recommended; empty for
\* the empty list
C21_PermutationRecommendedFirst ==
    ret.fn = "connection_order" => OrderedAsClaimed(ret.args, ret.value)

\* C21: the same, for every endpoint list in which the first recommended
\* endpoint object occurs only once
C21_PermutationUnlessRepeated ==
    (/\ ret.fn = "connection_order"
     /\ LET r == FirstIndex(IsRecommended(ret.args)) IN
        r # 0 => Count(ret.args, ret.args[r]) = 1)
        => OrderedAsClaimed(ret.args, ret.value)

\* three distinct endpoints, the recommended one last, moved to the front
C21_Witness ==
    /\ ret.fn = "connection_order"
    /\ Len(ret.args) = 3
    /\ FirstIndex(IsRecommended(ret.args)) = 3
    /\ Count(ret.args, ret.args[3]) = 1
    /\ ret.value = <<ret.args[3], ret.args[1], ret.args[2]>>

\* C22: the failover loop tries the endpoints in connection_order order, one
\* at a time; an endpoint whose connect raises a connection or timeout error is
\* skipped; the first endpoint that connects is used and no later one is
\* tried; an error is raised only after every endpoint has failed, and it
\* reports the error of the last endpoint tried
C22_FailoverTriesAllInOrder ==
    wc_pc \in {"trying", "yielded", "all_failed", "raised"} =>
        /\ Len(tried) <= Len(ordered)
        /\ \A k \in 1..Len(tried) : tried[k].ip = ordered[k].ip
        /\ \A k \in 1..(Len(tried) - 1) : tried[k].outcome \in CaughtErrors
        /\ wc_pc = "yielded" => tried[Len(tried)].outcome = "ok"
        /\ wc_pc \in {"all_failed", "raised"} =>
               /\ Len(tried) = Len(ordered)
               /\ tried[Len(tried)].outcome \in CaughtErrors
               /\ last_err = [ip |-> tried[Len(tried)].ip, error |-> tried[Len(tried)].outcome]

InResult(i) == \E k \in 1..Len(endpoints) : endpoints[k].ip = i

\* C23: discover never raises because of a candidate: a candidate whose TCP
\* connect fails or times out, whose heartbeat verification fails or times
\* out, or whose probe raises an exception is dropped; an endpoint is in the
\* result only if its TCP connect and its heartbeat verification succeeded;
\* with no candidate confirmed the result is the empty list
C23_FailuresAreDropped ==
    /\ disc_pc # "raised"
    /\ disc_pc = "returned" =>
           /\ \A i \in Candidates :
                  /\ (probes[i].tcp # "ok" \/ probes[i].heard # "working_state"
                      \/ probes[i].result = "exc") => ~InResult(i)
                  /\ InResult(i) => (probes[i].tcp = "ok" /\ probes[i].heard = "working_state")
           /\ (\A i \in Candidates : probes[i].result \notin {"dc", "rover"}) => endpoints = <<>>
           /\ \A k \in 1..Len(endpoints) : endpoints[k].ip \in Candidates

\* a scan has returned the empty list after one connect failure, one heartbeat
\* timeout and one probe that raised
C23_Witness ==
    /\ disc_pc = "returned"
    /\ endpoints = <<>>
    /\ \E i \in Candidates : probes[i].tcp = "fail"
    /\ \E i \in Candidates : probes[i].heard = "timeout"
    /\ \E i \in Candidates : probes[i].result = "exc"

\* the text of a MAC address up to its first separator
FirstOctetText(mac) ==
    LET seps == {k \in 1..Len(mac) : mac[k] \in {":", "-"}} IN
    IF seps = {} THEN mac ELSE SubSeq(mac, 1, FirstIndex(seps) - 1)

\* the MAC address parses and bit 0x02 of its first octet is set
LocallyAdministered(mac) ==
    LET octet == IntBase16(FirstOctetText(mac)) IN
    /\ Len(FirstOctetText(mac)) = 2
    /\ octet # -1
    /\ octet \in {2, 3, 6, 7, 10, 11, 14, 15} \cup
                 {16 * h + l : h \in 0..15, l \in {2, 3, 6, 7, 10, 11, 14, 15}}

\* the hostname is there and one of its pieces reads YARBO in some casing
ContainsYarbo(hostname) ==
    /\ hostname # Absent
    /\ \E k \in 1..Len(hostname) : hostname[k] \in {"yarbo", "Yarbo", "YARBO"}

\* C24: a confirmed endpoint is 'dc' if and only if its MAC address is locally
\* administered or its hostname contains 'YARBO' in any casing; in every other
\* case, an empty or unparseable MAC with no hostname included, it is 'rover'
C24_DcIffLocalMacOrYarboHostname ==
    disc_pc = "returned" =>
        \A k \in 1..Len(endpoints) :
            /\ endpoints[k].path = "dc" <=>
                   (LocallyAdministered(endpoints[k].mac) \/ ContainsYarbo(endpoints[k].hostname))
            /\ endpoints[k].path \in {"dc", "rover"}
            /\ (endpoints[k].mac \in {<<>>, <<"z", "z", ":", "0", "0">>}
                /\ endpoints[k].hostname = Absent) => endpoints[k].path = "rover"

\* an endpoint with a globally administered MAC is a dc through its hostname
C24_Witness ==
    /\ disc_pc = "returned"
    /\ Len(endpoints) = 1
    /\ endpoints[1].path = "dc"
    /\ ~LocallyAdministered(endpoints[1].mac)
    /\ endpoints[1].hostname = <<"my", "Yarbo">>

\* C25: decode never raises: for every byte string it returns the document
\* parsed from the decompressed bytes, or, when decompression fails, the
\* document parsed from the bytes as plain JSON, or, when neither succeeds
\* (bytes that decompress but are not JSON included), the '_raw' sentinel
C25_DecodeNeverRaises ==
    ret.fn = "decode" =>
        /\ ret.value.raised = "none"
        /\ LET z == zlib_decompress(ret.args) IN
           \/ z.ok /\ json_loads(z.data).err = "none" /\ ret.value.doc = json_loads(z.data).val
           \/ ~z.ok /\ json_loads(ret.args).err = "none"
                 /\ ret.value.doc = json_loads(ret.args).val
           \/ ret.value.doc.t = "raw"

\* the same objects: same keys with the same values, in any order
RECURSIVE JsonEq(_, _)
JsonEq(x, y) ==
    /\ x.t = y.t
    /\ IF x.t = "obj"
       THEN /\ Len(x.v) = Len(y.v)
            /\ \A i \in 1..Len(x.v) : \E j \in 1..Len(y.v) :
                   x.v[i].key = y.v[j].key /\ JsonEq(x.v[i].val, y.v[j].val)
       ELSE x.v = y.v

\* C26: for every JSON-representable document d, decode(encode(d)) equals d,
\* and decode of the plain minified JSON text of d equals d
C26_RoundTrip ==
    /\ ret.fn = "decode_encode" =>
           (ret.value.raised = "none" /\ JsonEq(ret.value.doc, ret.args))
    /\ (ret.fn = "decode" /\ \E d \in Docs : json_dumps(d) = ret.args) =>
           /\ ret.value.raised = "none"
           /\ \A d \in Docs : json_dumps(d) = ret.args => JsonEq(ret.value.doc, d)

\* a document with two keys and a nested object has gone through encode and decode
C26_Witness ==
    /\ ret.fn = "decode_encode"
    /\ Len(ret.args.v) = 2
    /\ ret.args.v[2].val.t = "obj"
    /\ Len(ret.args.v[2].val.v) = 1
    /\ ret.value.doc = ret.args

NoSlash(s) == \A k \in 1..Len(s) : s[k] # "/"
Slashes(s) == Cardinality({k \in 1..Len(s) : s[k] = "/"})

\* snowbot/<sn>/<direction>/<leaf>: four segments, sn and leaf not empty,
\* direction app or device
WellFormedTopic(s) ==
    \E sn \in TopicNames, leaf \in TopicNames, direction \in {"app", "device"} :
        /\ NoSlash(sn) /\ NoSlash(leaf)
        /\ s = <<"snowbot", "/">> \o sn \o <<"/", direction, "/">> \o leaf

Referenced == Range(message_queues) \cup {tq[t] : t \in Tasks}

\* C28: no mailbox ever holds more than QueueMaxSize envelopes; a delivery to a
\* full mailbox removes exactly its oldest entry and appends the new envelope,
\* a delivery to any other mailbox appends it, so the delivered envelope is
\* always the newest entry afterwards; and a scheduled delivery can always run.
C28_MailboxBoundedEvictsOldest ==
    [][ /\ \A q \in QIds : Len(mbox'[q]) <= QueueMaxSize
        /\ (loopq # <<>> /\ Head(loopq).cb = "enqueue") => ENABLED RunEnqueue
        /\ (ev'.type = "run_enqueue" /\ Head(loopq).q \in Referenced) =>
              LET q == Head(loopq).q
                  envelope == Head(loopq).env
              IN /\ mbox'[q] = IF Len(mbox[q]) = QueueMaxSize
                               THEN Tail(mbox[q]) \o <<envelope>>
                               ELSE Append(mbox[q], envelope)
                 /\ \A r \in QIds \ {q} : mbox'[r] = mbox[r] ]_vars

C28_Witness ==
    /\ ev.type = "run_enqueue"
    /\ ev.out = "evicted"
    /\ ev.n \in Referenced
    /\ Len(mbox[ev.n]) = QueueMaxSize

\* The envelopes on their way to mailbox q in arrival order: those in the
\* mailbox, then those whose delivery is scheduled on the loop
Pipeline(boxes, pending, q) ==
    LET mine == SelectSeq(pending, LAMBDA c : c.cb = "enqueue" /\ c.q = q)
    IN boxes[q] \o [i \in 1..Len(mine) |-> mine[i].env]

\* new is old with some oldest entries removed and at most one entry added at
\* the end
IsFifoStep(old, new) ==
    \E k \in 0..Len(old) :
        /\ Len(new) \in {Len(old) - k, Len(old) - k + 1}
        /\ \A i \in 1..(Len(old) - k) : new[i] = old[k + i]

\* C29: for every mailbox the envelopes travel first-in first-out from their
\* arrival on the network thread to the reader: a step changes the pipeline of
\* a mailbox only by removing oldest entries and by adding the arriving
\* envelope at the end, and a reader takes the oldest entry of its mailbox.
C29_PerMailboxFifo ==
    [][ /\ \A q \in QIds : IsFifoStep(Pipeline(mbox, loopq, q), Pipeline(mbox', loopq', q))
        /\ (ev'.type \in {"skip", "wait_done"} /\ ev'.env # NoEnv) =>
              /\ mbox[tq[ev'.task]] # <<>>
              /\ ev'.env = Head(mbox[tq[ev'.task]]) ]_vars

C29_Witness ==
    /\ ev.type = "skip"
    /\ Len(mbox[tq[ev.task]]) = 1
    /\ Len(Pipeline(mbox, loopq, tq[ev.task])) = 2
    /\ Pipeline(mbox, loopq, tq[ev.task])[1] # Pipeline(mbox, loopq, tq[ev.task])[2]

\* A step of one of the paho callbacks, which run on the network thread
NetworkThreadStep == ev'.type \in {"on_connect", "on_disconnect", "on_message"}

\* C30: no callback of the network thread (_on_connect, _on_disconnect,
\* _on_message) touches loop-owned state directly: the registered-mailbox
\* list, the mailboxes, the connected event, the reconnect flag and the
\* heartbeat timestamp change only in steps that run on the event loop.
C30_CallbacksLeaveLoopStateAlone ==
    [][NetworkThreadStep =>
          UNCHANGED <<message_queues, mbox, connected, was_connected, last_heartbeat>>]_vars

\* The first envelope of a mailbox that wait_for_message would return for a
\* data_feedback wait on command name, or NoEnv
FirstEcho(box, name) ==
    LET hits == SelectSeq(box, LAMBDA e : /\ TopicLeaf(e.topic) = TOPIC_LEAF_DATA_FEEDBACK
                                          /\ e.payload.ptopic = name)
    IN IF hits = <<>> THEN NoEnv ELSE Head(hits)

\* C31: when commands of different names wait for their acknowledgements at the
\* same time, a waiter that returns an acknowledgement returns the first one in
\* its mailbox that echoes its own command name, and the envelopes it skips
\* echo another name, whatever the order of arrival.
C31_EachWaiterGetsOwnAck ==
    [][ /\ (ev'.type = "ack_done" /\ ev'.out = "ok") =>
              /\ ev'.env.payload.ptopic = call[ev'.task].cmd
              /\ ev'.env = FirstEcho(mbox[tq[ev'.task]], call[ev'.task].cmd)
        /\ (ev'.type = "skip" /\ pc[ev'.task] = "ack_wait") =>
              ev'.env.payload.ptopic # call[ev'.task].cmd ]_vars

\* Both commands are waiting, both mailboxes hold the acknowledgement of the
\* other command first, and one waiter has just returned its own
C31_Witness ==
    /\ ev.type = "ack_done"
    /\ ev.out = "ok"
    /\ ev.env.payload.ptopic = CmdOf(ev.task)
    /\ \E u \in Tasks \ {ev.task} :
          /\ pc[u] = "ack_wait"
          /\ call[u].cmd = CmdOf(u)
          /\ Len(mbox[tq[u]]) = 2
          /\ Head(mbox[tq[u]]) = ev.env
          /\ mbox[tq[u]][2].payload.ptopic = CmdOf(u)

\* Positions of the DeviceMSG envelopes in a stream, in stream order
DeviceMsgAt(stream) ==
    SelectSeq([i \in 1..Len(stream) |-> i], LAMBDA i : stream[i].kind = TOPIC_LEAF_DEVICE_MSG)

\* The payload of the last plan_feedback envelope before position i, or {}
PlanBefore(stream, i) ==
    LET js == {j \in 1..(i - 1) : stream[j].kind = TOPIC_LEAF_PLAN_FEEDBACK}
    IN IF js = {} THEN EmptyPayload
       ELSE stream[CHOOSE j \in js : \A k \in js : k <= j].payload

\* C32: watch_telemetry yields one record per DeviceMSG envelope of the stream,
\* in stream order, and none for another leaf; the plan fields of a record are
\* those of the last plan_feedback envelope before it, and are all unset when
\* there was none.
C32_OneRecordPerDeviceMsgLastPlanWins ==
    ret.fn = "watch_telemetry" =>
        LET stream == ret.args
            out == ret.value.out
            at == DeviceMsgAt(stream)
        IN /\ Len(out) = Len(at)
           /\ \A k \in 1..Len(at) :
                 LET plan == PlanBefore(stream, at[k])
                 IN /\ out[k].raw = stream[at[k]].payload
                    /\ out[k].plan_id = plan.planId
                    /\ out[k].plan_state = plan.state
                    /\ out[k].area_covered = plan.areaCovered
                    /\ out[k].duration = plan.duration

\* Two plan reports, each followed by a DeviceMSG: the second record carries
\* the second report
C32_Witness ==
    /\ ret.fn = "watch_telemetry"
    /\ Len(ret.args) = 4
    /\ ret.args[1].kind = TOPIC_LEAF_PLAN_FEEDBACK
    /\ ret.args[2].kind = TOPIC_LEAF_DEVICE_MSG
    /\ ret.args[3].kind = TOPIC_LEAF_PLAN_FEEDBACK
    /\ ret.args[4].kind = TOPIC_LEAF_DEVICE_MSG
    /\ ret.args[1].payload.planId = "p-123"
    /\ ret.args[3].payload.planId = "p-456"
    /\ Len(ret.value.out) = 2
    /\ ret.value.out[2].plan_id = "p-456"
    /\ ret.value.out[2].plan_state = Absent

\* C33: during a scan at most SCAN_CONCURRENCY probes are between their start
\* and their end; the probe tasks are one per distinct address of the
\* candidate list, so that no address is probed twice and none is left out;
\* and every probe task of a scan eventually runs to its end.
C33_BoundedScanProbesEachOnce ==
    /\ [](Cardinality(holding_semaphore) <= SCAN_CONCURRENCY)
    /\ [](\A i, j \in Candidates : probes[i].ip = probes[j].ip => i = j)
    /\ []((ret.fn = "discover" /\ disc_pc = "scanning") =>
             {probes[i].ip : i \in Candidates} = Range(ret.args))
    /\ \A i \in 1..MaxCandidates :
          (disc_pc = "scanning" /\ i \in Candidates)
              ~> (i \in Candidates /\ probes[i].stage = "done")

\* A list that repeats an address, more distinct addresses than permits: all
\* permits are taken and a probe is waiting for one
C33_Witness ==
    /\ ret.fn = "discover"
    /\ disc_pc = "scanning"
    /\ Len(ret.args) > Len(probes)
    /\ Len(probes) > SCAN_CONCURRENCY
    /\ Cardinality(holding_semaphore) = SCAN_CONCURRENCY
    /\ \E i \in Candidates : probes[i].stage = "queued"

\* C34: once the reconnect notification has reset controller_acquired, it stays
\* false for as long as no get_controller has been published since: the
\* acknowledgement of a handshake that was in flight before the reconnect does
\* not set it again.
C34_StaleHandshakeNeverAcquires ==
    renotified => ~controller_acquired

\* C35: with auto_controller enabled, an action command publishes its own
\* message only in a state where controller_acquired is true, also when the
\* reconnect notification runs during the settle delay after the handshake.
C35_ActionPublishesOnlyWhenAcquired ==
    (auto_controller /\ ActionPublishedOwn) => controller_acquired

\* The step ends the automatic handshake of an action command of task t with
\* an error
AutoHandshakeFails(t) ==
    /\ ev'.task = t
    /\ ev'.api = "action"
    /\ ev'.cmd = "get_controller"
    /\ ev'.type \in {"gc_done", "publish_raised"}
    /\ ev'.out # "ok"

\* C36: when the automatic handshake of an action command fails, by rejection
\* (YarboNotControllerError), by timeout (YarboTimeoutError) or because publish
\* raises YarboConnectionError, the action command ends with that error, its
\* own message is not published, and controller_acquired is unchanged.
C36_FailedHandshakeEndsCommand ==
    [][\A t \in Tasks : AutoHandshakeFails(t) =>
          /\ pc'[t] = "idle"
          /\ publog' = publog
          /\ controller_acquired' = controller_acquired
          /\ IF ev'.type = "publish_raised"
             THEN ev'.out = "conn_err" /\ ~connected /\ pc[t] = "idle"
             ELSE /\ pc[t] = "gc_wait"
                  /\ Len(publog) = hs_idx[t]
                  /\ publog[hs_idx[t]].topic = TOPIC_APP_TMPL(SN, "get_controller")
                  /\ IF ev'.env = NoEnv
                     THEN ev'.out = "timeout_err"
                     ELSE /\ ev'.out = "not_controller"
                          /\ ~from_dict(ev'.env.payload).success]_vars

\* The robot has rejected the automatic handshake of an action command
C36_Witness ==
    /\ ev.type = "gc_done"
    /\ ev.api = "action"
    /\ ev.cmd = "get_controller"
    /\ ev.out = "not_controller"
    /\ pc[ev.task] = "idle"
    /\ ~controller_acquired
    /\ publog[Len(publog)].topic = TOPIC_APP_TMPL(SN, "get_controller")

\* C37: whenever get_controller has just raised YarboNotControllerError or
\* YarboTimeoutError, controller_acquired is false, also on a client that held
\* the controller role when the call started.
C37_FailedHandshakeClearsFlag ==
    (ev.type = "gc_done" /\ ev.out \in {"not_controller", "timeout_err"})
        => ~controller_acquired

\* C38: in every reachable state, controller_acquired true implies that the
\* transport is connected (is_connected true).
C38_AcquiredImpliesConnected ==
    controller_acquired => connected

\* The tasks whose get_controller has been published and has not returned
HandshakesInFlight == {t \in Tasks : pc[t] = "gc_wait"}

\* C39: when several action commands run concurrently on one client with
\* auto_controller enabled, at most one get_controller handshake is in flight
\* at any time: no second get_controller is published while the first is
\* waiting for its acknowledgement and controller_acquired is still false.
C39_OneHandshakeInFlight ==
    auto_controller => Cardinality(HandshakesInFlight) <= 1

\* Task t is inside wait_for_message
Waiting(t) == pc[t] \in {"raw_wait0", "raw_wait"}

\* C40: every wait_for_message call terminates. The check of an iteration at
\* or after the deadline returns None whatever the mailbox holds, so also
\* while non-matching envelopes keep arriving; with a timeout of zero or less
\* the first check does, and nothing is read from the mailbox.
C40_WaitTerminates ==
    /\ [][\A t \in Caller :
            (Waiting(t) /\ ev'.task = t /\ ev'.type \in {"skip", "wait_done"}) =>
               /\ ev'.late => (ev'.type = "wait_done" /\ ev'.out = "nil" /\ pc'[t] = "idle")
               /\ call[t].tmo = "nonpositive" => (ev'.late /\ ev'.first)]_vars
    /\ \A t \in Caller : Waiting(t) ~> (pc[t] = "idle")

\* A wait with a positive timeout has discarded at least one non-matching
\* envelope and then returned None at its deadline while more traffic was
\* on its way
C40_Witness ==
    /\ ev.type = "wait_done"
    /\ ev.out = "nil"
    /\ ev.late
    /\ ~ev.first
    /\ loopq # <<>>

====
